---- MODULE Spec2Model ----
(***************************************************************************)
(* Retrieval core of the insurance-claim question answering system:        *)
(* RoutingAgent.route, NeedleAgent.search_chunks / answer_query (with      *)
(* auto-merge) and SummaryAgent.search_summaries / answer_query.           *)
(*                                                                         *)
(* The external collaborators (embedding provider, datastore, chat model)  *)
(* are modelled by their outcomes: a call either returns a value drawn     *)
(* from a small set or fails.  A query is a sequence of steps, one per     *)
(* external call, and pc is the position of the running call.              *)
(***************************************************************************)
EXTENDS Integers, Sequences, FiniteSets

VARIABLES
    chunks_table,          \* rows of the claim_chunks table, in fetch order
    summaries_table,       \* rows of the claim_summaries table, in fetch order
    parent_docs,           \* NeedleAgent.parent_docs: parent id -> page text
    pc,                    \* position of the running call
    agent,                 \* which agent's answer_query is running
    top_k,                 \* argument top_k of the running answer_query
    merge_threshold,       \* argument merge_threshold
    use_auto_merge,        \* argument use_auto_merge
    query_embedding,       \* value returned by _get_query_embedding
    fetch_status,          \* outcome of the datastore select
    chunks,                \* list returned by search_chunks / search_summaries
    context_parts,         \* context_parts of answer_query
    sources,               \* sources of answer_query
    parents_already_added, \* parents_already_added of NeedleAgent.answer_query
    generation,            \* outcome of the chat completion call
    result,                \* dict returned by answer_query
    raised,                \* exception propagated to the caller
    classifier_response,   \* outcome of the router's chat completion call
    route_result,          \* value returned by RoutingAgent.route
    calls,                 \* external calls issued by the running answer_query
    documents,             \* pages loaded by load_pdf_with_metadata / load_pdf_pages
    chunk_config,          \* CHUNK_SIZE, CHUNK_OVERLAP, MIN_CHUNK_SIZE of Config.config
    child_nodes,           \* child_nodes returned by create_needle_chunks
    summary_docs,          \* summary_docs returned by create_summary_chunks
    summaries_stored,      \* turns of the loop of store_summaries_in_supabase done
    index_pc,              \* position of the indexing run
    index_runs,            \* number of indexing runs started
    tables_before,         \* the collections and the parent map before the first query
    earlier_queries,       \* whether a query has returned before the running one
    search_runs,           \* what each run of search_chunks over one input returned
    docstore,              \* docstore of store_in_supabase: parent id -> page text
    docstore_file,         \* what docstore.persist has written to DOCSTORE_PATH
    chunks_stored,         \* turns done of the running loop over child_nodes
    transaction,           \* rows executed on the PostgreSQL connection
    cache_file,            \* content of the QA cache file QA_CACHED_ANSWERS
    last_save,             \* the last call of save_cached_answers: caller, answers, cache before
    clock,                 \* datetime.now() of the next call
    main_steps,            \* steps create_all_indexes.main has run, with their outcomes
    main_result            \* what create_all_indexes.main returned

vars == <<chunks_table, summaries_table, parent_docs, pc, agent, top_k,
          merge_threshold, use_auto_merge, query_embedding, fetch_status,
          chunks, context_parts, sources, parents_already_added, generation,
          result, raised, classifier_response, route_result, calls,
          documents, chunk_config, child_nodes, summary_docs, summaries_stored,
          index_pc, index_runs, tables_before, earlier_queries,
          search_runs, docstore, docstore_file, chunks_stored, transaction,
          cache_file, last_save, clock, main_steps, main_result>>

(***************************************************************************)
(* Bounds of the model and constants of the program.                       *)
(***************************************************************************)
MaxChunks == 6
MaxSummaries == 4

AUTO_MERGE_THRESHOLD == 3
NEEDLE_TOP_K == 6
SUMMARY_TOP_K == 6

Parents == {"page_1", "page_2"}
SummaryEmbeddings == {<<1, 0>>, <<1, 1>>}
QueryEmbeddings == {<<1, 0>>, <<0, 1>>}
EmbeddingPatterns == {<<(<<1, 0>>), (<<1, 1>>)>>, <<(<<1, 0>>), (<<1, 1>>), (<<0, 1>>)>>}
SummaryTypes == {"Overview", "Details"}

NoValue == <<>>
NoResult == [answer |-> "none"]
NOT_FOUND_ANSWER == "I couldn't find relevant information to answer your question."
GENERATION_ERROR_ANSWER == "An error occurred while generating the answer."
GENERATED_ANSWER == "generated answer"

Min(a, b) == IF a <= b THEN a ELSE b
Max(a, b) == IF a >= b THEN a ELSE b

(***************************************************************************)
(* Cosine similarity.  The code computes dot(q, e) / (|q| * |e|) and sorts *)
(* on it; the model compares two such scores exactly, by cross             *)
(* multiplication of the signed squares (|q| is common to both sides).     *)
(***************************************************************************)
RECURSIVE Dot(_, _)
Dot(a, b) == IF a = <<>> THEN 0 ELSE Head(a) * Head(b) + Dot(Tail(a), Tail(b))

NormSq(a) == Dot(a, a)

SignedSq(x) == IF x >= 0 THEN x * x ELSE 0 - (x * x)

\* cos(q, a) < cos(q, b)
SimilarityLess(q, a, b) ==
    SignedSq(Dot(q, a)) * NormSq(b) < SignedSq(Dot(q, b)) * NormSq(a)

\* cos(q, a) = cos(q, b)
SimilarityEqual(q, a, b) ==
    SignedSq(Dot(q, a)) * NormSq(b) = SignedSq(Dot(q, b)) * NormSq(a)

(***************************************************************************)
(* similarities.sort(key=lambda x: x[0], reverse=True): a stable sort,     *)
(* highest score first, equal scores in their original order.              *)
(***************************************************************************)
RECURSIVE InsertReversingTies(_, _, _)
InsertReversingTies(q, sorted, x) ==
    IF sorted = <<>> THEN <<x>>
    ELSE IF ~SimilarityLess(q, x.embedding, Head(sorted).embedding)
         THEN <<x>> \o sorted
         ELSE <<Head(sorted)>> \o InsertReversingTies(q, Tail(sorted), x)

RECURSIVE InsertByScore(_, _, _)
InsertByScore(q, sorted, x) ==
    IF sorted = <<>> THEN <<x>>
    ELSE IF SimilarityLess(q, Head(sorted).embedding, x.embedding)
         THEN <<x>> \o sorted
         ELSE <<Head(sorted)>> \o InsertByScore(q, Tail(sorted), x)

RECURSIVE SortAcc(_, _, _)
SortAcc(q, sorted, rest) ==
    IF rest = <<>> THEN sorted
    ELSE SortAcc(q, InsertByScore(q, sorted, Head(rest)), Tail(rest))

SortBySimilarity(q, records) == SortAcc(q, <<>>, records)

\* seq[:k] of Python: the first k items, or all but the last -k when k < 0.
SlicePrefix(seq, k) ==
    IF k >= 0 THEN SubSeq(seq, 1, Min(k, Len(seq)))
    ELSE SubSeq(seq, 1, Max(0, Len(seq) + k))

\* The list search_chunks returns for the rows the select returned.
TopChunks(q, rows, k) == SlicePrefix(SortBySimilarity(q, rows), k)

(***************************************************************************)
(* NeedleAgent.answer_query, from the retrieved chunks to the context.     *)
(***************************************************************************)
\* parent_chunk_count[parent_id]
ParentChunkCount(retrieved, p) ==
    Cardinality({i \in DOMAIN retrieved : retrieved[i].parent_id = p})

ParentsToMergeAboveThreshold(retrieved, threshold, auto) ==
    IF auto
    THEN {p \in {retrieved[i].parent_id : i \in DOMAIN retrieved} :
              ParentChunkCount(retrieved, p) > threshold}
    ELSE {}

\* A page merged already with one chunk less than the threshold.
ParentsToMergeBelowThreshold(retrieved, threshold, auto) ==
    IF auto
    THEN {p \in {retrieved[i].parent_id : i \in DOMAIN retrieved} :
              ParentChunkCount(retrieved, p) + 1 >= threshold}
    ELSE {}

\* parents_to_merge
ParentsToMerge(retrieved, threshold, auto) ==
    IF auto
    THEN {p \in {retrieved[i].parent_id : i \in DOMAIN retrieved} :
              ParentChunkCount(retrieved, p) >= threshold}
    ELSE {}

\* _get_parent_context: the page text, or the empty text when not found.
get_parent_context(docs, parent_id) ==
    IF parent_id \in DOMAIN docs THEN docs[parent_id] ELSE NoValue

ChunkPart(i, chunk) ==
    [kind |-> "chunk", n |-> i, chunk_id |-> chunk.chunk_id,
     page |-> chunk.parent_id, text |-> <<"content", chunk.chunk_id>>]

SeparatorPart(i) ==
    [kind |-> "separator", n |-> i, chunk_id |-> 0, page |-> "",
     text |-> NoValue]

FullPagePart(parent_id, parent_text) ==
    [kind |-> "full_page", n |-> 0, chunk_id |-> 0, page |-> parent_id,
     text |-> parent_text]

\* First loop: one context entry per retrieved chunk, in retrieval order.
ChunkParts(retrieved) == [i \in DOMAIN retrieved |-> ChunkPart(i, retrieved[i])]

\* sources: one entry per retrieved chunk.
NeedleSources(retrieved) ==
    [i \in DOMAIN retrieved |->
        [chunk_id |-> retrieved[i].chunk_id, page |-> retrieved[i].parent_id,
         content |-> <<"content", retrieved[i].chunk_id>>]]

\* Second loop: the full page of every parent to merge, skipped when the
\* parent was added already or its text is empty.  Returns the parts and
\* parents_already_added.
RECURSIVE ParentParts(_, _, _, _)
ParentParts(rest, to_merge, docs, acc) ==
    IF rest = <<>> THEN acc
    ELSE LET p == Head(rest).parent_id
             t == get_parent_context(docs, p)
         IN IF p \in to_merge /\ p \notin acc.added /\ t # NoValue
            THEN ParentParts(Tail(rest), to_merge, docs,
                    [parts |-> Append(acc.parts, FullPagePart(p, t)),
                     added |-> acc.added \cup {p}])
            ELSE ParentParts(Tail(rest), to_merge, docs, acc)

NoParentParts == [parts |-> <<>>, added |-> {}]

\* The docstring's reading: the chunks of a merged parent are replaced.
NeedleContextReplacingChunks(retrieved, to_merge, docs) ==
    LET kept == SelectSeq(ChunkParts(retrieved), LAMBDA e : e.page \notin to_merge)
    IN IF to_merge = {}
       THEN [parts |-> kept, added |-> {}]
       ELSE LET pp == ParentParts(retrieved, to_merge, docs, NoParentParts)
            IN [parts |-> kept \o <<SeparatorPart(1), SeparatorPart(2), SeparatorPart(3)>>
                               \o pp.parts,
                added |-> pp.added]

\* Parent pages ahead of the chunk entries.
NeedleContextPagesFirst(retrieved, to_merge, docs) ==
    IF to_merge = {}
    THEN [parts |-> ChunkParts(retrieved), added |-> {}]
    ELSE LET pp == ParentParts(retrieved, to_merge, docs, NoParentParts)
         IN [parts |-> pp.parts
                       \o <<SeparatorPart(1), SeparatorPart(2), SeparatorPart(3)>>
                       \o ChunkParts(retrieved),
             added |-> pp.added]

\* context_parts and parents_already_added as answer_query builds them.
NeedleContext(retrieved, to_merge, docs) ==
    IF to_merge = {}
    THEN [parts |-> ChunkParts(retrieved), added |-> {}]
    ELSE LET pp == ParentParts(retrieved, to_merge, docs, NoParentParts)
         IN [parts |-> ChunkParts(retrieved)
                       \o <<SeparatorPart(1), SeparatorPart(2), SeparatorPart(3)>>
                       \o pp.parts,
             added |-> pp.added]

NeedleNotFoundResultCountingTopK ==
    [answer |-> NOT_FOUND_ANSWER, sources |-> <<>>, chunks_used |-> top_k,
     parent_pages_used |-> 0]

NeedleNotFoundResult ==
    [answer |-> NOT_FOUND_ANSWER, sources |-> <<>>, chunks_used |-> 0,
     parent_pages_used |-> 0]

NeedleAnswerResult(answer, srcs, n_chunks, added) ==
    [answer |-> answer, sources |-> srcs, chunks_used |-> n_chunks,
     parent_pages_used |-> Cardinality(added)]

NeedleErrorResultWithoutSources(srcs, n_chunks, added) ==
    [answer |-> GENERATION_ERROR_ANSWER, sources |-> <<>>, chunks_used |-> 0,
     parent_pages_used |-> 0]

NeedleErrorResult(srcs, n_chunks, added) ==
    [answer |-> GENERATION_ERROR_ANSWER, sources |-> srcs,
     chunks_used |-> n_chunks, parent_pages_used |-> Cardinality(added)]

(***************************************************************************)
(* SummaryAgent.search_summaries and answer_query.                         *)
(***************************************************************************)
IsOverview(summary) == summary.summary_type = "Overview"

overview_summaries(rows) == SelectSeq(rows, IsOverview)
other_summaries(rows) == SelectSeq(rows, LAMBDA s : ~IsOverview(s))

\* num_others = min(top_k - len(overview_summaries), len(similarities))
NumOthers(rows, k) ==
    Min(k - Len(overview_summaries(rows)), Len(other_summaries(rows)))

\* Overview rows subject to the cutoff like the others.
FinalSummariesRankingAll(q, rows, k) == SlicePrefix(SortBySimilarity(q, rows), k)

\* final_summaries = overview_summaries + top_other_summaries
FinalSummaries(q, rows, k) ==
    overview_summaries(rows)
    \o SlicePrefix(SortBySimilarity(q, other_summaries(rows)), NumOthers(rows, k))

SummaryParts(selected) ==
    [i \in DOMAIN selected |->
        [kind |-> "summary", n |-> i, summary_id |-> selected[i].summary_id,
         text |-> <<"summary", selected[i].summary_id>>]]

SummarySources(selected) ==
    [i \in DOMAIN selected |->
        [summary_id |-> selected[i].summary_id,
         type |-> selected[i].summary_type,
         summary |-> <<"summary", selected[i].summary_id>>]]

SummaryNotFoundResult ==
    [answer |-> NOT_FOUND_ANSWER, sources |-> <<>>, summaries_used |-> 0]

SummaryAnswerResult(answer, srcs, n) ==
    [answer |-> answer, sources |-> srcs, summaries_used |-> n]

SummaryErrorResult(srcs, n) ==
    [answer |-> GENERATION_ERROR_ANSWER, sources |-> srcs, summaries_used |-> n]

(***************************************************************************)
(* RoutingAgent.route.  The classifier's text is a sequence of characters, *)
(* so that strip(), upper() and lower() do what they do in the code.       *)
(***************************************************************************)
LowerLetters == <<"a", "d", "e", "l", "m", "n", "r", "s", "u", "y">>
UpperLetters == <<"A", "D", "E", "L", "M", "N", "R", "S", "U", "Y">>
Whitespace == {" ", "\n", "\t"}

UpperChar(c) ==
    IF \E i \in DOMAIN LowerLetters : LowerLetters[i] = c
    THEN UpperLetters[CHOOSE i \in DOMAIN LowerLetters : LowerLetters[i] = c]
    ELSE c

LowerChar(c) ==
    IF \E i \in DOMAIN UpperLetters : UpperLetters[i] = c
    THEN LowerLetters[CHOOSE i \in DOMAIN UpperLetters : UpperLetters[i] = c]
    ELSE c

StrUpper(str) == [i \in DOMAIN str |-> UpperChar(str[i])]
StrLower(str) == [i \in DOMAIN str |-> LowerChar(str[i])]

RECURSIVE StripLeft(_)
StripLeft(str) ==
    IF str # <<>> /\ Head(str) \in Whitespace THEN StripLeft(Tail(str)) ELSE str

RECURSIVE StripRight(_)
StripRight(str) ==
    IF str # <<>> /\ str[Len(str)] \in Whitespace
    THEN StripRight(SubSeq(str, 1, Len(str) - 1))
    ELSE str

StrStrip(str) == StripRight(StripLeft(str))

NEEDLE == <<"N", "E", "E", "D", "L", "E">>
SUMMARY == <<"S", "U", "M", "M", "A", "R", "Y">>
needle == <<"n", "e", "e", "d", "l", "e">>
summary == <<"s", "u", "m", "m", "a", "r", "y">>

\* What the chat completion call of route can give: a failed call, a
\* response without content, or a text.
CallFailed == <<"call failed">>
NoContent == <<"no content">>
ClassifierTexts ==
    { NEEDLE, SUMMARY, needle, summary,
      <<"S", "u", "m", "m", "a", "r", "y">>,
      <<" ">> \o NEEDLE \o <<"\n">>,
      <<"\n">> \o summary \o <<" ", " ">>,
      NEEDLE \o <<".">>,
      SUMMARY \o <<" ">> \o NEEDLE,
      <<"N", " ">> \o <<"E", "E", "D", "L", "E">>,
      <<>>,
      <<" ">> }
ClassifierOutcomes == ClassifierTexts \cup {CallFailed, NoContent}

RouteDefaultingToSummary(outcome) ==
    IF outcome \in {CallFailed, NoContent} THEN summary
    ELSE LET routing_decision == StrUpper(StrStrip(outcome))
         IN IF routing_decision \notin {SUMMARY, NEEDLE} THEN summary
            ELSE StrLower(routing_decision)

\* route: the label for one outcome of the classifier call.  A failed call
\* and a response whose content is None both end in the except branch.
Route(outcome) ==
    IF outcome \in {CallFailed, NoContent} THEN needle
    ELSE LET routing_decision == StrUpper(StrStrip(outcome))
         IN IF routing_decision \notin {SUMMARY, NEEDLE} THEN needle
            ELSE StrLower(routing_decision)

(***************************************************************************)
(* Indexing: split_into_sentences.  A text is a sequence of characters.    *)
(***************************************************************************)
Capitals ==
    {"A", "B", "C", "D", "E", "F", "G", "H", "I", "J", "K", "L", "M", "N",
     "O", "P", "Q", "R", "S", "T", "U", "V", "W", "X", "Y", "Z"}
SentenceEnders == {".", "!", "?"}
SentenceStarters == Capitals \cup {"\"", "'"}

\* text[i:].startswith(old)
OccursAt(text, old, i) ==
    /\ i + Len(old) - 1 <= Len(text)
    /\ \A k \in 1..Len(old) : text[i + k - 1] = old[k]

\* str.replace(old, new): the occurrences left to right, without overlap
RECURSIVE ReplaceFrom(_, _, _, _, _)
ReplaceFrom(text, old, new, occurrences, from) ==
    LET ahead == {j \in occurrences : j >= from}
    IN IF ahead = {}
       THEN SubSeq(text, from, Len(text))
       ELSE LET j == CHOOSE m \in ahead : \A o \in ahead : m <= o
            IN SubSeq(text, from, j - 1) \o new
                 \o ReplaceFrom(text, old, new, occurrences, j + Len(old))

StrReplace(text, old, new) ==
    LET occurrences == {i \in 1..Len(text) : text[i] = old[1] /\ OccursAt(text, old, i)}
    IN IF occurrences = {} THEN text
       ELSE ReplaceFrom(text, old, new, occurrences, 1)

PLACEHOLDER == <<"_", "P", "L", "A", "C", "E", "H", "O", "L", "D", "E", "R">>

\* abbreviations, in the order of the dict
abbreviations ==
    << <<(<<"M", "r", ".">>), (<<"M", "R">> \o PLACEHOLDER)>>,
       <<(<<"M", "r", "s", ".">>), (<<"M", "R", "S">> \o PLACEHOLDER)>>,
       <<(<<"M", "s", ".">>), (<<"M", "S">> \o PLACEHOLDER)>>,
       <<(<<"D", "r", ".">>), (<<"D", "R">> \o PLACEHOLDER)>>,
       <<(<<"P", "r", "o", "f", ".">>), (<<"P", "R", "O", "F">> \o PLACEHOLDER)>>,
       <<(<<"S", "r", ".">>), (<<"S", "R">> \o PLACEHOLDER)>>,
       <<(<<"J", "r", ".">>), (<<"J", "R">> \o PLACEHOLDER)>>,
       <<(<<"I", "n", "c", ".">>), (<<"I", "N", "C">> \o PLACEHOLDER)>>,
       <<(<<"L", "t", "d", ".">>), (<<"L", "T", "D">> \o PLACEHOLDER)>>,
       <<(<<"C", "o", ".">>), (<<"C", "O">> \o PLACEHOLDER)>>,
       <<(<<"C", "o", "r", "p", ".">>), (<<"C", "O", "R", "P">> \o PLACEHOLDER)>>,
       <<(<<"e", "t", "c", ".">>), (<<"E", "T", "C">> \o PLACEHOLDER)>>,
       <<(<<"v", "s", ".">>), (<<"V", "S">> \o PLACEHOLDER)>>,
       <<(<<"e", ".", "g", ".">>), (<<"E", "G">> \o PLACEHOLDER)>>,
       <<(<<"i", ".", "e", ".">>), (<<"I", "E">> \o PLACEHOLDER)>>,
       <<(<<"P", "h", ".", "D", ".">>), (<<"P", "H", "D">> \o PLACEHOLDER)>>,
       <<(<<"M", ".", "D", ".">>), (<<"M", "D">> \o PLACEHOLDER)>> >>

\* for abbrev, placeholder in abbreviations.items(): protected.replace(...)
RECURSIVE Protect(_, _)
Protect(text, k) ==
    IF k > Len(abbreviations) THEN text
    ELSE Protect(StrReplace(text, abbreviations[k][1], abbreviations[k][2]), k + 1)

\* for abbrev, placeholder in abbreviations.items(): sent.replace(placeholder, abbrev)
RECURSIVE Restore(_, _)
Restore(sent, k) ==
    IF k > Len(abbreviations) THEN sent
    ELSE Restore(StrReplace(sent, abbreviations[k][2], abbreviations[k][1]), k + 1)

\* the last position of the run of whitespace that starts at i
RECURSIVE RunEnd(_, _)
RunEnd(text, i) ==
    IF i < Len(text) /\ text[i + 1] \in Whitespace THEN RunEnd(text, i + 1) ELSE i

\* where (?<=[.!?])\s+(?=[A-Z"']) matches: a run of whitespace right after
\* a sentence ender and right before a capital or a quote
SplitPoints(text) ==
    {i \in 2..Len(text) :
        /\ text[i] \in Whitespace
        /\ text[i - 1] \in SentenceEnders
        /\ RunEnd(text, i) < Len(text)
        /\ text[RunEnd(text, i) + 1] \in SentenceStarters}

\* re.split(pattern, protected)
RECURSIVE ReSplitFrom(_, _, _)
ReSplitFrom(text, points, from) ==
    LET ahead == {j \in points : j >= from}
    IN IF ahead = {}
       THEN <<SubSeq(text, from, Len(text))>>
       ELSE LET j == CHOOSE m \in ahead : \A o \in ahead : m <= o
            IN <<SubSeq(text, from, j - 1)>>
                 \o ReSplitFrom(text, points, RunEnd(text, j) + 1)

ReSplit(text) == ReSplitFrom(text, SplitPoints(text), 1)

\* the restored sentences that are not blank, stripped
RECURSIVE RestoredSentences(_, _)
RestoredSentences(pieces, k) ==
    IF k > Len(pieces) THEN <<>>
    ELSE LET sent == Restore(pieces[k], 1)
         IN (IF StrStrip(sent) # <<>> THEN <<StrStrip(sent)>> ELSE <<>>)
              \o RestoredSentences(pieces, k + 1)

split_into_sentences(text) == RestoredSentences(ReSplit(Protect(text, 1)), 1)

\* " ".join(strings)
RECURSIVE JoinSpace(_)
JoinSpace(strings) ==
    IF strings = <<>> THEN <<>>
    ELSE IF Len(strings) = 1 THEN strings[1]
    ELSE strings[1] \o <<" ">> \o JoinSpace(Tail(strings))

(***************************************************************************)
(* Indexing: create_needle_chunks.  current_chunk_sentences is kept as the *)
(* positions of its sentences in the page's sentence list (the i of        *)
(* enumerate(sentences)); the text of position i is sentences[i].strip().  *)
(***************************************************************************)
CHUNK_SIZE == 400
CHUNK_OVERLAP == 50
MIN_CHUNK_SIZE == 200

\* the chunking configuration of Config/config.py
ProgramConfig ==
    [CHUNK_SIZE |-> CHUNK_SIZE, CHUNK_OVERLAP |-> CHUNK_OVERLAP,
     MIN_CHUNK_SIZE |-> MIN_CHUNK_SIZE]
\* the chunking configuration of the three-events scenario
ScenarioConfig == [CHUNK_SIZE |-> 50, CHUNK_OVERLAP |-> 10, MIN_CHUNK_SIZE |-> 0]

Digits == <<"0", "1", "2", "3", "4", "5", "6", "7", "8", "9">>

\* str(n) of an f-string
RECURSIVE Decimal(_)
Decimal(n) ==
    IF n < 10 THEN <<Digits[n + 1]>>
    ELSE Decimal(n \div 10) \o <<Digits[(n % 10) + 1]>>

\* f"page_{i}"
PageKey(i) == <<"p", "a", "g", "e", "_">> \o Decimal(i)

\* f"{parent_doc.id_}_chunk_{len(chunks)}"
ChunkId(parent_id, index) ==
    parent_id \o <<"_", "c", "h", "u", "n", "k", "_">> \o Decimal(index)

\* the stripped sentences at the given positions
SentenceTexts(sentences, positions) ==
    [k \in 1..Len(positions) |-> StrStrip(sentences[positions[k]])]

\* sum(len(s) for s in current_chunk_sentences) + len(current_chunk_sentences) - 1
RECURSIVE SumLen(_)
SumLen(strings) ==
    IF strings = <<>> THEN 0 ELSE Len(Head(strings)) + SumLen(Tail(strings))

JoinedLength(strings) == SumLen(strings) + Len(strings) - 1

\* A chunk numbered by the position of its first sentence.
TextNodeNumberedBySentence(parent_doc, page_chunks, sentences, current) ==
    LET chunk_text == JoinSpace(SentenceTexts(sentences, current))
    IN [text |-> chunk_text,
        chunk_index |-> current[1] - 1,
        parent_id |-> parent_doc.id_,
        chunk_id |-> ChunkId(parent_doc.id_, current[1] - 1),
        chunk_size |-> Len(chunk_text),
        num_sentences |-> Len(current),
        sentence_positions |-> current]

\* node = TextNode(text=chunk_text) and its metadata
TextNode(parent_doc, page_chunks, sentences, current) ==
    LET chunk_text == JoinSpace(SentenceTexts(sentences, current))
    IN [text |-> chunk_text,
        chunk_index |-> Len(page_chunks),
        parent_id |-> parent_doc.id_,
        chunk_id |-> ChunkId(parent_doc.id_, Len(page_chunks)),
        chunk_size |-> Len(chunk_text),
        num_sentences |-> Len(current),
        sentence_positions |-> current]

\* The last sentence taken over whatever its length.
RECURSIVE OverlapSentencesAlwaysLast(_, _, _, _, _, _)
OverlapSentencesAlwaysLast(sentences, current, k, overlap_sentences, overlap_length, chunk_overlap) ==
    IF k = 0 THEN overlap_sentences
    ELSE LET prev_sent == StrStrip(sentences[current[k]])
         IN IF k = Len(current) \/ overlap_length + Len(prev_sent) <= chunk_overlap
            THEN OverlapSentencesAlwaysLast(sentences, current, k - 1,
                                  <<current[k]>> \o overlap_sentences,
                                  overlap_length + Len(prev_sent) + 1, chunk_overlap)
            ELSE overlap_sentences

\* for prev_sent in reversed(current_chunk_sentences): ... else: break
RECURSIVE OverlapSentences(_, _, _, _, _, _)
OverlapSentences(sentences, current, k, overlap_sentences, overlap_length, chunk_overlap) ==
    IF k = 0 THEN overlap_sentences
    ELSE LET prev_sent == StrStrip(sentences[current[k]])
         IN IF overlap_length + Len(prev_sent) <= chunk_overlap
            THEN OverlapSentences(sentences, current, k - 1,
                                  <<current[k]>> \o overlap_sentences,
                                  overlap_length + Len(prev_sent) + 1, chunk_overlap)
            ELSE overlap_sentences

NoChunks == [chunks |-> <<>>, current_chunk_sentences |-> <<>>, current_chunk_length |-> 0]

\* for i, sent in enumerate(sentences): ...
RECURSIVE SentenceLoop(_, _, _, _, _)
SentenceLoop(parent_doc, cfg, sentences, i, st) ==
    IF i > Len(sentences) THEN st
    ELSE
      LET sent == StrStrip(sentences[i])
          current == st.current_chunk_sentences
          potential_length ==
              st.current_chunk_length + Len(sent) + (IF current # <<>> THEN 1 ELSE 0)
      IN IF sent = <<>> THEN SentenceLoop(parent_doc, cfg, sentences, i + 1, st)
         ELSE IF current # <<>> /\ potential_length > cfg.CHUNK_SIZE
         THEN LET node == TextNode(parent_doc, st.chunks, sentences, current)
                  overlap_sentences ==
                      OverlapSentences(sentences, current, Len(current), <<>>, 0,
                                       cfg.CHUNK_OVERLAP)
                  started == overlap_sentences \o <<i>>
              IN SentenceLoop(parent_doc, cfg, sentences, i + 1,
                     [chunks |-> Append(st.chunks, node),
                      current_chunk_sentences |-> started,
                      current_chunk_length |->
                          JoinedLength(SentenceTexts(sentences, started))])
         ELSE SentenceLoop(parent_doc, cfg, sentences, i + 1,
                     [chunks |-> st.chunks,
                      current_chunk_sentences |-> Append(current, i),
                      current_chunk_length |-> potential_length])

\* The tail glued to the previous chunk without the separating space.
MergeTailWithoutSpace(prev_chunk, sentences, current) ==
    LET chunk_text == JoinSpace(SentenceTexts(sentences, current))
        merged_text == prev_chunk.text \o chunk_text
    IN [prev_chunk EXCEPT
            !.text = merged_text,
            !.chunk_size = Len(merged_text),
            !.num_sentences = @ + Len(current),
            !.sentence_positions = @ \o current]

\* The short tail dropped instead of merged.
MergeTailKeepingPrevious(prev_chunk, sentences, current) == prev_chunk

\* prev_chunk.text = prev_chunk.text + " " + chunk_text
MergeTail(prev_chunk, sentences, current) ==
    LET chunk_text == JoinSpace(SentenceTexts(sentences, current))
        merged_text == prev_chunk.text \o <<" ">> \o chunk_text
    IN [prev_chunk EXCEPT
            !.text = merged_text,
            !.chunk_size = Len(merged_text),
            !.num_sentences = @ + Len(current),
            !.sentence_positions = @ \o current]

\* the chunks of one page: the loop, then the final chunk
PageChunks(parent_doc, cfg) ==
    LET sentences == split_into_sentences(parent_doc.text)
        st == SentenceLoop(parent_doc, cfg, sentences, 1, NoChunks)
        page_chunks == st.chunks
        current == st.current_chunk_sentences
        chunk_text == JoinSpace(SentenceTexts(sentences, current))
    IN IF current = <<>> THEN page_chunks
       ELSE IF Len(page_chunks) > 0 /\ Len(chunk_text) < cfg.MIN_CHUNK_SIZE
       THEN [page_chunks EXCEPT ![Len(page_chunks)] = MergeTail(@, sentences, current)]
       ELSE Append(page_chunks, TextNode(parent_doc, page_chunks, sentences, current))

\* create_needle_chunks: child_nodes.extend(chunks) for every document
RECURSIVE create_needle_chunks(_, _)
create_needle_chunks(docs, cfg) ==
    IF docs = <<>> THEN <<>>
    ELSE PageChunks(Head(docs), cfg) \o create_needle_chunks(Tail(docs), cfg)

(***************************************************************************)
(* Indexing: create_summary_chunks and store_summaries_in_supabase.        *)
(***************************************************************************)
\* f"{page_id}_summary"
SummaryId(page_id) == page_id \o <<"_", "s", "u", "m", "m", "a", "r", "y">>

\* what generate_summary_for_page can return for a page
SummaryOutputs == {<<"s", "u", "m", " ", "1">>, <<"s", "u", "m", " ", "2">>}

\* summary_doc = Document(text=summary_text, metadata={...})
SummaryDoc(doc, summary_text) ==
    [text |-> summary_text,
     summary_id |-> SummaryId(doc.page_id),
     summary_type |-> doc.type,
     id_ |-> SummaryId(doc.page_id)]

\* create_summary_chunks: one summary_doc per document, in order
create_summary_chunks(docs, summary_texts) ==
    [i \in 1..Len(docs) |-> SummaryDoc(docs[i], summary_texts[i])]

\* An upsert that never finds the existing row.
UpsertSummaryInserting(table, row) == Append(table, row)

\* store_in_supabase: data, the row made of a child node and its embedding
StoredChunk(node, embedding) ==
    [chunk_id |-> node.chunk_id, content |-> node.text, embedding |-> embedding,
     chunk_index |-> node.chunk_index, parent_id |-> node.parent_id]

\* A chunk row added without looking for its chunk_id.
UpsertChunkInserting(table, row) == Append(table, row)

\* upsert(data, on_conflict="chunk_id"); INSERT ... ON CONFLICT (chunk_id) DO UPDATE
UpsertChunk(table, row) ==
    IF \E i \in 1..Len(table) : table[i].chunk_id = row.chunk_id
    THEN [i \in 1..Len(table) |->
             IF table[i].chunk_id = row.chunk_id THEN row ELSE table[i]]
    ELSE Append(table, row)

\* conn.commit(): the executed statements take effect in their order
RECURSIVE CommitRows(_, _)
CommitRows(table, rows) ==
    IF rows = <<>> THEN table
    ELSE CommitRows(UpsertChunk(table, Head(rows)), Tail(rows))

\* docstore.add_documents([parent]) for every parent: the pages by their id
ParentDocstore(parent_nodes) ==
    [id \in {parent_nodes[p].id_ : p \in 1..Len(parent_nodes)} |->
        parent_nodes[CHOOSE p \in 1..Len(parent_nodes) : parent_nodes[p].id_ = id].text]

\* supabase.table(SUMMARIES_TABLE).upsert(data, on_conflict="summary_id")
UpsertSummary(table, row) ==
    IF \E i \in 1..Len(table) : table[i].summary_id = row.summary_id
    THEN [i \in 1..Len(table) |->
             IF table[i].summary_id = row.summary_id THEN row ELSE table[i]]
    ELSE Append(table, row)

(***************************************************************************)
(* Indexing: the pages given to the indexers.                              *)
(***************************************************************************)
MaxSentences == 4
MaxPages == 2
MaxRuns == 2
MaxSearchRuns == 2

\* a sentence of n characters that starts with the capital c
Sentence(c, n) == [i \in 1..n |-> IF i = 1 THEN c ELSE IF i = n THEN "." ELSE "x"]

SentenceLibrary ==
    {Sentence("A", 10), Sentence("B", 24), Sentence("C", 195), Sentence("D", 380)}

EventA == <<"E", "v", "e", "n", "t", " ", "A", " ", "h", "a", "p", "p", "e", "n", "e", "d", ".">>
EventB == <<"E", "v", "e", "n", "t", " ", "B", " ", "h", "a", "p", "p", "e", "n", "e", "d",
            " ", "n", "e", "x", "t", ".">>
EventC == <<"E", "v", "e", "n", "t", " ", "C", " ", "f", "o", "l", "l", "o", "w", "e", "d", ".">>
ThreeEvents == JoinSpace(<<EventA, EventB, EventC>>)

\* texts that try the sentence detector: no text, blank text, a lower-case
\* start, an abbreviation, paragraph breaks and surrounding blanks, no ender
SpecialTexts ==
    { <<>>,
      <<" ", "\n", " ">>,
      ThreeEvents,
      Sentence("A", 24) \o <<" ">> \o Sentence("b", 24) \o <<" ">> \o Sentence("C", 10),
      <<"D", "r", ".", " ">> \o Sentence("B", 24) \o <<" ">> \o Sentence("C", 24),
      <<" ", "\n">> \o Sentence("A", 24) \o <<"\n", "\n">> \o Sentence("B", 10)
          \o <<" ", " ">> \o Sentence("D", 380) \o <<"\n">>,
      <<"n", "o", " ", "e", "n", "d">> }

SentenceSequences == UNION {[1..n -> SentenceLibrary] : n \in 0..MaxSentences}
PageTexts == {JoinSpace(ss) : ss \in SentenceSequences} \cup SpecialTexts

\* the text of the pages after the first
FollowingText == Sentence("D", 380) \o <<" ">> \o Sentence("D", 380)

\* load_pdf_with_metadata / load_pdf_pages: page i with its metadata
PageDocument(i, type, text) ==
    [id_ |-> PageKey(i), page_id |-> PageKey(i), type |-> type, text |-> text]

NothingIndexed ==
    /\ documents = <<>>
    /\ chunk_config = ProgramConfig
    /\ child_nodes = <<>>
    /\ summary_docs = <<>>
    /\ summaries_stored = 0
    /\ index_pc = "none"
    /\ index_runs = 0

(***************************************************************************)
(* The state after construction: the two tables hold what indexing left   *)
(* in them, parent_docs what _load_parent_docs could read (nothing when    *)
(* the docstore file is missing), and no call is running.                  *)
(***************************************************************************)
NotCalled == <<"not called">>
PageText(p) == <<"page text", p>>

ChunkRow(id, parent, emb) == [chunk_id |-> id, parent_id |-> parent, embedding |-> emb]
SummaryRow(id, type, emb) == [summary_id |-> id, summary_type |-> type, embedding |-> emb]

DefaultChunks ==
    <<ChunkRow(1, "page_1", <<1, 0>>), ChunkRow(2, "page_2", <<1, 1>>),
      ChunkRow(3, "page_1", <<1, 1>>)>>
DefaultSummaries ==
    <<SummaryRow(1, "Overview", <<1, 1>>), SummaryRow(2, "Details", <<1, 0>>)>>

NoCallRunning ==
    /\ pc = "idle"
    /\ agent = "none"
    /\ top_k = 0
    /\ merge_threshold = 0
    /\ use_auto_merge = FALSE
    /\ query_embedding = NoValue
    /\ fetch_status = "none"
    /\ chunks = <<>>
    /\ context_parts = <<>>
    /\ sources = <<>>
    /\ parents_already_added = {}
    /\ generation = "none"
    /\ result = NoResult
    /\ raised = "none"
    /\ classifier_response = NotCalled
    /\ route_result = NoValue
    /\ calls = <<>>

\* Chunk tables: any assignment of the rows to parent pages, the embeddings
\* following one of the patterns (which gives equal and unequal scores
\* within a page and across pages).  parent_docs holds every page, or
\* nothing when _load_parent_docs could not read the docstore.
InitChunks ==
    /\ \E n \in 0..MaxChunks :
         \E ps \in [1..n -> Parents], pat \in EmbeddingPatterns :
            chunks_table = [i \in 1..n |-> ChunkRow(i, ps[i], pat[(i % Len(pat)) + 1])]
    /\ \E loaded \in {Parents, {}} : parent_docs = [p \in loaded |-> PageText(p)]
    /\ summaries_table = DefaultSummaries

\* Summary tables: any types and embeddings.
InitSummaries ==
    /\ \E n \in 0..MaxSummaries :
         \E ty \in [1..n -> SummaryTypes], em \in [1..n -> SummaryEmbeddings] :
            summaries_table = [i \in 1..n |-> SummaryRow(i, ty[i], em[i])]
    /\ parent_docs = [p \in Parents |-> PageText(p)]
    /\ chunks_table = DefaultChunks

\* No query has run: what the collections and the parent map hold now is kept
\* for comparison.
NoQueryBefore ==
    /\ tables_before = <<chunks_table, summaries_table, parent_docs>>
    /\ earlier_queries = FALSE

\* search_chunks has not been run on its own.
NoSearchRun == search_runs = <<>>

\* store_in_supabase has not been called.
NothingStored ==
    /\ docstore = <<>>
    /\ docstore_file = <<>>
    /\ chunks_stored = 0
    /\ transaction = <<>>

\* No cache file, save_cached_answers not called.
NothingCached ==
    /\ cache_file = [entries |-> <<>>, last_updated |-> 0]
    /\ last_save = [caller |-> "none"]
    /\ clock = 1

\* create_all_indexes.main has not been called.
MainNotStarted ==
    /\ main_steps = <<>>
    /\ main_result = NoValue

\* None of the operations modelled on their own has run.
NothingStandalone ==
    /\ NoSearchRun
    /\ NothingStored
    /\ NothingCached
    /\ MainNotStarted

Init == (InitChunks \/ InitSummaries) /\ NoCallRunning /\ NothingIndexed /\ NoQueryBefore
        /\ NothingStandalone

(***************************************************************************)
(* Actions.                                                                *)
(***************************************************************************)
tables == <<chunks_table, summaries_table, parent_docs>>
call_args == <<agent, top_k, merge_threshold, use_auto_merge>>
retrieval == <<fetch_status, chunks, context_parts, sources, parents_already_added>>
routing == <<classifier_response, route_result>>
indexed_data == <<documents, chunk_config, child_nodes, summary_docs, summaries_stored>>
indexing == <<indexed_data, index_pc, index_runs>>
history == <<tables_before, earlier_queries>>
storing == <<docstore, docstore_file, chunks_stored, transaction>>
caching == <<cache_file, last_save, clock>>
main_run == <<main_steps, main_result>>
standalone == <<search_runs, storing, caching, main_run>>
offline == <<indexing, standalone>>
querying == <<pc, call_args, routing, query_embedding, retrieval, generation, result,
              raised, calls>>
online == <<history, querying>>

\* One external call of an answer_query: who issued it, which call, how it ended.
Call(a, call, outcome) == [agent |-> a, call |-> call, outcome |-> outcome]

\* RoutingAgent.route
RouteQuery ==
    /\ pc = "idle"
    /\ \E outcome \in ClassifierOutcomes :
          /\ classifier_response' = outcome
          /\ route_result' = Route(outcome)
    /\ pc' = "routed"
    /\ UNCHANGED <<tables, history, offline, calls, call_args, query_embedding, retrieval, generation,
                   result, raised>>

\* The needle agent started whatever the route.
RunNeedleQueryOnAnyRoute ==
    /\ pc = "routed"
    /\ agent' = "needle"
    /\ top_k' = NEEDLE_TOP_K
    /\ merge_threshold' = AUTO_MERGE_THRESHOLD
    /\ use_auto_merge' = TRUE
    /\ classifier_response' = NotCalled
    /\ pc' = "embed"
    /\ UNCHANGED <<tables, history, offline, calls, route_result, query_embedding, retrieval, generation,
                   result, raised>>

\* run_single_query: if routed_type == "needle", the needle agent with its defaults
RunNeedleQuery ==
    /\ pc = "routed"
    /\ route_result = needle
    /\ agent' = "needle"
    /\ top_k' = NEEDLE_TOP_K
    /\ merge_threshold' = AUTO_MERGE_THRESHOLD
    /\ use_auto_merge' = TRUE
    /\ classifier_response' = NotCalled
    /\ pc' = "embed"
    /\ UNCHANGED <<tables, history, offline, calls, route_result, query_embedding, retrieval, generation,
                   result, raised>>

\* run_single_query: else, the summary agent with its defaults
RunSummaryQuery ==
    /\ pc = "routed"
    /\ route_result # needle
    /\ agent' = "summary"
    /\ top_k' = SUMMARY_TOP_K
    /\ merge_threshold' = 0
    /\ use_auto_merge' = FALSE
    /\ classifier_response' = NotCalled
    /\ pc' = "embed"
    /\ UNCHANGED <<tables, history, offline, calls, route_result, query_embedding, retrieval, generation,
                   result, raised>>

\* NeedleAgent.answer_query called with arguments.  merge_threshold is not
\* read when use_auto_merge is false: such a call carries the default.
NeedleAnswerQuery ==
    /\ pc = "idle"
    /\ agent' = "needle"
    /\ top_k' \in 0..NEEDLE_TOP_K
    /\ merge_threshold' \in 1..AUTO_MERGE_THRESHOLD
    /\ use_auto_merge' \in BOOLEAN
    /\ use_auto_merge' \/ merge_threshold' = AUTO_MERGE_THRESHOLD
    /\ pc' = "embed"
    /\ UNCHANGED <<tables, history, offline, calls, routing, query_embedding, retrieval, generation,
                   result, raised>>

\* SummaryAgent.answer_query called with arguments
SummaryAnswerQuery ==
    /\ pc = "idle"
    /\ agent' = "summary"
    /\ top_k' \in 0..SUMMARY_TOP_K
    /\ merge_threshold' = 0
    /\ use_auto_merge' = FALSE
    /\ pc' = "embed"
    /\ UNCHANGED <<tables, history, offline, calls, routing, query_embedding, retrieval, generation,
                   result, raised>>

\* the embedding call returns: query_embedding = np.array(...)
EmbeddingReturns(a) ==
    /\ pc = "embed"
    /\ agent = a
    /\ calls' = Append(calls, Call(a, "embed", "returned"))
    /\ query_embedding' \in QueryEmbeddings
    /\ pc' = "fetch"
    /\ UNCHANGED <<tables, history, offline, call_args, routing, retrieval, generation, result, raised>>

\* The embedding failure caught and answered like an empty retrieval.
EmbeddingRaisesAnsweringNotFound(a) ==
    /\ pc = "embed"
    /\ agent = a
    /\ calls' = Append(calls, Call(a, "embed", "raised"))
    /\ result' = IF a = "needle" THEN NeedleNotFoundResult ELSE SummaryNotFoundResult
    /\ pc' = "done"
    /\ UNCHANGED <<tables, history, offline, call_args, routing, query_embedding, retrieval,
                   generation, raised>>

\* the embedding call raises: it is made outside every try block
EmbeddingRaises(a) ==
    /\ pc = "embed"
    /\ agent = a
    /\ calls' = Append(calls, Call(a, "embed", "raised"))
    /\ raised' = "embedding error"
    /\ pc' = "raised"
    /\ UNCHANGED <<tables, history, offline, call_args, routing, query_embedding, retrieval,
                   generation, result>>

\* NeedleAgent._get_query_embedding
NeedleEmbedQuery == EmbeddingReturns("needle")
NeedleEmbedQueryFails == EmbeddingRaises("needle")

\* SummaryAgent._get_query_embedding
SummaryEmbedQuery == EmbeddingReturns("summary")
SummaryEmbedQueryFails == EmbeddingRaises("summary")

\* search_chunks from the select on, then answer_query up to the chat call
NeedleSearch ==
    /\ pc = "fetch"
    /\ agent = "needle"
    /\ calls' = Append(calls, Call("needle", "fetch", "returned"))
    /\ fetch_status' = "ok"
    /\ LET top_chunks == IF chunks_table = <<>> THEN <<>>
                         ELSE TopChunks(query_embedding, chunks_table, top_k)
           to_merge == ParentsToMerge(top_chunks, merge_threshold, use_auto_merge)
           built == NeedleContext(top_chunks, to_merge, parent_docs)
       IN /\ chunks' = top_chunks
          /\ IF top_chunks = <<>>
             THEN /\ result' = NeedleNotFoundResult
                  /\ pc' = "done"
                  /\ UNCHANGED <<context_parts, sources, parents_already_added>>
             ELSE /\ context_parts' = built.parts
                  /\ sources' = NeedleSources(top_chunks)
                  /\ parents_already_added' = built.added
                  /\ pc' = "generate"
                  /\ UNCHANGED result
    /\ UNCHANGED <<tables, history, offline, call_args, routing, query_embedding, generation, raised>>

\* The failed select issued a second time before giving up.
NeedleSearchFailsRetrying ==
    /\ pc = "fetch"
    /\ agent = "needle"
    /\ calls' = calls \o <<Call("needle", "fetch", "raised"), Call("needle", "fetch", "raised")>>
    /\ fetch_status' = "failed"
    /\ chunks' = <<>>
    /\ result' = NeedleNotFoundResult
    /\ pc' = "done"
    /\ UNCHANGED <<tables, history, offline, call_args, routing, query_embedding, context_parts,
                   sources, parents_already_added, generation, raised>>

\* search_chunks: the select (or the scoring) raises, the except returns []
NeedleSearchFails ==
    /\ pc = "fetch"
    /\ agent = "needle"
    /\ calls' = Append(calls, Call("needle", "fetch", "raised"))
    /\ fetch_status' = "failed"
    /\ chunks' = <<>>
    /\ result' = NeedleNotFoundResult
    /\ pc' = "done"
    /\ UNCHANGED <<tables, history, offline, call_args, routing, query_embedding, context_parts,
                   sources, parents_already_added, generation, raised>>

\* The merged pages taken out of the parent map once they were used.
NeedleGeneratePoppingParents ==
    /\ pc = "generate"
    /\ agent = "needle"
    /\ calls' = Append(calls, Call("needle", "generate", "returned"))
    /\ generation' = "ok"
    /\ result' = NeedleAnswerResult(GENERATED_ANSWER, sources, Len(chunks),
                                    parents_already_added)
    /\ parent_docs' = [p \in (DOMAIN parent_docs) \ parents_already_added |-> parent_docs[p]]
    /\ pc' = "done"
    /\ UNCHANGED <<chunks_table, summaries_table, history, offline, call_args, routing,
                   query_embedding, retrieval, raised>>

\* NeedleAgent.answer_query: the chat completion returns
NeedleGenerate ==
    /\ pc = "generate"
    /\ agent = "needle"
    /\ calls' = Append(calls, Call("needle", "generate", "returned"))
    /\ generation' = "ok"
    /\ result' = NeedleAnswerResult(GENERATED_ANSWER, sources, Len(chunks),
                                    parents_already_added)
    /\ pc' = "done"
    /\ UNCHANGED <<tables, history, offline, call_args, routing, query_embedding, retrieval, raised>>

\* NeedleAgent.answer_query: the chat completion raises
NeedleGenerateFails ==
    /\ pc = "generate"
    /\ agent = "needle"
    /\ calls' = Append(calls, Call("needle", "generate", "raised"))
    /\ generation' = "failed"
    /\ result' = NeedleErrorResult(sources, Len(chunks), parents_already_added)
    /\ pc' = "done"
    /\ UNCHANGED <<tables, history, offline, call_args, routing, query_embedding, retrieval, raised>>

\* search_summaries from the select on, then answer_query up to the chat call
SummarySearch ==
    /\ pc = "fetch"
    /\ agent = "summary"
    /\ calls' = Append(calls, Call("summary", "fetch", "returned"))
    /\ fetch_status' = "ok"
    /\ LET final_summaries ==
               IF summaries_table = <<>> THEN <<>>
               ELSE FinalSummaries(query_embedding, summaries_table, top_k)
       IN /\ chunks' = final_summaries
          /\ IF final_summaries = <<>>
             THEN /\ result' = SummaryNotFoundResult
                  /\ pc' = "done"
                  /\ UNCHANGED <<context_parts, sources>>
             ELSE /\ context_parts' = SummaryParts(final_summaries)
                  /\ sources' = SummarySources(final_summaries)
                  /\ pc' = "generate"
                  /\ UNCHANGED result
    /\ UNCHANGED <<tables, history, offline, call_args, routing, query_embedding,
                   parents_already_added, generation, raised>>

\* The select raising through search_summaries, as the embedding call does.
SummarySearchFailsRaising ==
    /\ pc = "fetch"
    /\ agent = "summary"
    /\ calls' = Append(calls, Call("summary", "fetch", "raised"))
    /\ fetch_status' = "failed"
    /\ raised' = "datastore error"
    /\ pc' = "raised"
    /\ UNCHANGED <<tables, history, offline, call_args, routing, query_embedding, chunks,
                   context_parts, sources, parents_already_added, generation,
                   result>>

\* The failed select followed by the chat call over an empty context.
SummarySearchFailsGenerating ==
    /\ pc = "fetch"
    /\ agent = "summary"
    /\ calls' = Append(calls, Call("summary", "fetch", "raised"))
    /\ fetch_status' = "failed"
    /\ chunks' = <<>>
    /\ pc' = "generate"
    /\ UNCHANGED <<tables, history, offline, call_args, routing, query_embedding, context_parts,
                   sources, parents_already_added, generation, result, raised>>

\* search_summaries: the select (or the scoring) raises, the except returns []
SummarySearchFails ==
    /\ pc = "fetch"
    /\ agent = "summary"
    /\ calls' = Append(calls, Call("summary", "fetch", "raised"))
    /\ fetch_status' = "failed"
    /\ chunks' = <<>>
    /\ result' = SummaryNotFoundResult
    /\ pc' = "done"
    /\ UNCHANGED <<tables, history, offline, call_args, routing, query_embedding, context_parts,
                   sources, parents_already_added, generation, raised>>

\* SummaryAgent.answer_query: the chat completion returns
SummaryGenerate ==
    /\ pc = "generate"
    /\ agent = "summary"
    /\ calls' = Append(calls, Call("summary", "generate", "returned"))
    /\ generation' = "ok"
    /\ result' = SummaryAnswerResult(GENERATED_ANSWER, sources, Len(chunks))
    /\ pc' = "done"
    /\ UNCHANGED <<tables, history, offline, call_args, routing, query_embedding, retrieval, raised>>

\* SummaryAgent.answer_query: the chat completion raises
SummaryGenerateFails ==
    /\ pc = "generate"
    /\ agent = "summary"
    /\ calls' = Append(calls, Call("summary", "generate", "raised"))
    /\ generation' = "failed"
    /\ result' = SummaryErrorResult(sources, Len(chunks))
    /\ pc' = "done"
    /\ UNCHANGED <<tables, history, offline, call_args, routing, query_embedding, retrieval, raised>>

\* The call is over (returned or raised): its locals are gone.
Return ==
    /\ pc \in {"done", "raised"}
    /\ pc' = "idle"
    /\ agent' = "none"
    /\ top_k' = 0
    /\ merge_threshold' = 0
    /\ use_auto_merge' = FALSE
    /\ query_embedding' = NoValue
    /\ fetch_status' = "none"
    /\ chunks' = <<>>
    /\ context_parts' = <<>>
    /\ sources' = <<>>
    /\ parents_already_added' = {}
    /\ generation' = "none"
    /\ result' = NoResult
    /\ raised' = "none"
    /\ classifier_response' = NotCalled
    /\ route_result' = NoValue
    /\ calls' = <<>>
    /\ earlier_queries' = TRUE
    /\ UNCHANGED <<tables, tables_before, offline>>

Next ==
    \/ RouteQuery
    \/ RunNeedleQuery
    \/ RunSummaryQuery
    \/ NeedleAnswerQuery
    \/ SummaryAnswerQuery
    \/ NeedleEmbedQuery
    \/ NeedleEmbedQueryFails
    \/ NeedleSearch
    \/ NeedleSearchFails
    \/ NeedleGenerate
    \/ NeedleGenerateFails
    \/ SummaryEmbedQuery
    \/ SummaryEmbedQueryFails
    \/ SummarySearch
    \/ SummarySearchFails
    \/ SummaryGenerate
    \/ SummaryGenerateFails
    \/ Return

Spec == Init /\ [][Next]_vars

(***************************************************************************)
(* The indexing run: create_needle_chunks over the loaded pages, then      *)
(* create_summary_chunks and store_summaries_in_supabase, one upsert per   *)
(* step.  The tables keep their rows from one run to the next.             *)
(***************************************************************************)
IndexInit ==
    /\ chunks_table = <<>>
    /\ summaries_table = <<>>
    /\ parent_docs = <<>>
    /\ NoCallRunning
    /\ \E n \in 0..MaxPages :
          \E types \in [1..n -> SummaryTypes] :
             documents = [i \in 1..n |-> PageDocument(i, types[i], ThreeEvents)]
    /\ chunk_config \in {ProgramConfig, ScenarioConfig}
    /\ child_nodes = <<>>
    /\ summary_docs = <<>>
    /\ summaries_stored = 0
    /\ index_pc = "loaded"
    /\ index_runs = 1
    /\ NoQueryBefore
    /\ NothingStandalone

\* create_needle_chunks(documents)
CreateNeedleChunks ==
    /\ index_pc = "loaded"
    /\ child_nodes' = create_needle_chunks(documents, chunk_config)
    /\ index_pc' = "chunked"
    /\ UNCHANGED <<tables, online, standalone, documents, chunk_config, summary_docs,
                   summaries_stored, index_runs>>

\* create_summary_chunks(documents): every generate_summary_for_page returns
CreateSummaryChunks ==
    /\ index_pc = "chunked"
    /\ \E summary_texts \in [1..Len(documents) -> SummaryOutputs] :
          summary_docs' = create_summary_chunks(documents, summary_texts)
    /\ summaries_stored' = 0
    /\ index_pc' = "summarized"
    /\ UNCHANGED <<tables, online, standalone, documents, chunk_config, child_nodes, index_runs>>

\* create_summary_chunks: llm.complete raises
CreateSummaryChunksFails ==
    /\ index_pc = "chunked"
    /\ documents # <<>>
    /\ index_pc' = "failed"
    /\ UNCHANGED <<tables, online, standalone, indexed_data, index_runs>>

\* store_summaries_in_supabase: one turn of the loop
StoreSummary ==
    /\ index_pc = "summarized"
    /\ summaries_stored < Len(summary_docs)
    /\ LET doc == summary_docs[summaries_stored + 1]
       IN \E embedding \in SummaryEmbeddings :
             summaries_table' =
                 UpsertSummary(summaries_table,
                               SummaryRow(doc.summary_id, doc.summary_type, embedding))
    /\ summaries_stored' = summaries_stored + 1
    /\ UNCHANGED <<chunks_table, parent_docs, online, standalone, documents, chunk_config,
                   child_nodes, summary_docs, index_pc, index_runs>>

\* store_summaries_in_supabase: get_text_embedding or the upsert raises
StoreSummaryFails ==
    /\ index_pc = "summarized"
    /\ summaries_stored < Len(summary_docs)
    /\ index_pc' = "failed"
    /\ UNCHANGED <<tables, online, standalone, indexed_data, index_runs>>

\* store_summaries_in_supabase: the loop is over
StoreSummariesDone ==
    /\ index_pc = "summarized"
    /\ summaries_stored = Len(summary_docs)
    /\ index_pc' = "stored"
    /\ UNCHANGED <<tables, online, standalone, indexed_data, index_runs>>

\* the indexing is run again over the same pages
IndexAgain ==
    /\ index_pc \in {"stored", "failed"}
    /\ index_runs < MaxRuns
    /\ index_runs' = index_runs + 1
    /\ child_nodes' = <<>>
    /\ summary_docs' = <<>>
    /\ summaries_stored' = 0
    /\ index_pc' = "loaded"
    /\ UNCHANGED <<tables, online, standalone, documents, chunk_config>>

IndexNext ==
    \/ CreateNeedleChunks
    \/ CreateSummaryChunks
    \/ CreateSummaryChunksFails
    \/ StoreSummary
    \/ StoreSummaryFails
    \/ StoreSummariesDone
    \/ IndexAgain

IndexSpec == IndexInit /\ [][IndexNext]_vars

(***************************************************************************)
(* create_needle_chunks applied to pages of every sentence sequence: the   *)
(* first page has any of the texts, the pages after it a fixed one.        *)
(***************************************************************************)
SegmentInit ==
    /\ chunks_table = <<>>
    /\ summaries_table = <<>>
    /\ parent_docs = <<>>
    /\ NoCallRunning
    /\ \E n \in 0..MaxPages, text \in PageTexts :
          documents = [i \in 1..n |->
                          IF i = 1 THEN PageDocument(i, "Overview", text)
                          ELSE PageDocument(i, "Details", FollowingText)]
    /\ chunk_config \in {ProgramConfig, ScenarioConfig}
    /\ child_nodes = <<>>
    /\ summary_docs = <<>>
    /\ summaries_stored = 0
    /\ index_pc = "loaded"
    /\ index_runs = 1
    /\ NoQueryBefore
    /\ NothingStandalone

SegmentNext == CreateNeedleChunks

SegmentSpec == SegmentInit /\ [][SegmentNext]_vars

(***************************************************************************)
(* search_chunks run several times over one query vector and one fetch     *)
(* order of the chunk collection.                                          *)
(***************************************************************************)
SearchInit ==
    /\ InitChunks
    /\ pc = "idle"
    /\ agent = "needle"
    /\ top_k \in 0..NEEDLE_TOP_K
    /\ merge_threshold = 0
    /\ use_auto_merge = FALSE
    /\ query_embedding \in QueryEmbeddings
    /\ fetch_status = "none"
    /\ chunks = <<>>
    /\ context_parts = <<>>
    /\ sources = <<>>
    /\ parents_already_added = {}
    /\ generation = "none"
    /\ result = NoResult
    /\ raised = "none"
    /\ classifier_response = NotCalled
    /\ route_result = NoValue
    /\ calls = <<>>
    /\ NothingIndexed
    /\ NoQueryBefore
    /\ NothingStandalone

\* One run of search_chunks: what it fetched and what it returned.
SearchRun(fetched, returned) == [fetched |-> fetched, returned |-> returned]

\* A later run reading the fetched rows from the last one to the first.
SearchChunksRunFromTheEnd ==
    /\ Len(search_runs) < MaxSearchRuns
    /\ LET n == Len(chunks_table)
           rows == IF search_runs = <<>> THEN chunks_table
                   ELSE [i \in 1..n |-> chunks_table[n + 1 - i]]
       IN search_runs' =
              Append(search_runs,
                     SearchRun("ok", IF rows = <<>> THEN <<>>
                                     ELSE TopChunks(query_embedding, rows, top_k)))
    /\ UNCHANGED <<tables, online, indexing, storing, caching, main_run>>

\* search_chunks: the select returns, the rows are scored, sorted and cut
SearchChunksRun ==
    /\ Len(search_runs) < MaxSearchRuns
    /\ search_runs' =
           Append(search_runs,
                  SearchRun("ok", IF chunks_table = <<>> THEN <<>>
                                  ELSE TopChunks(query_embedding, chunks_table, top_k)))
    /\ UNCHANGED <<tables, online, indexing, storing, caching, main_run>>

\* search_chunks: the select raises, the except returns []
SearchChunksRunFails ==
    /\ Len(search_runs) < MaxSearchRuns
    /\ search_runs' = Append(search_runs, SearchRun("failed", <<>>))
    /\ UNCHANGED <<tables, online, indexing, storing, caching, main_run>>

SearchNext ==
    \/ SearchChunksRun
    \/ SearchChunksRunFails

SearchSpec == SearchInit /\ [][SearchNext]_vars

(***************************************************************************)
(* store_in_supabase(child_nodes, parent_nodes) with its fallback          *)
(* store_via_postgres.  The chunk table is empty or holds what an earlier  *)
(* run over the same pages left in it.                                     *)
(***************************************************************************)
ChunkEmbeddings == {<<1, 0>>, <<1, 1>>}

\* the rows an earlier run under configuration cfg stored
EarlierRows(docs, cfg) ==
    LET nodes == create_needle_chunks(docs, cfg)
    IN [i \in 1..Len(nodes) |-> StoredChunk(nodes[i], <<0, 1>>)]

StoreInit ==
    /\ summaries_table = <<>>
    /\ parent_docs = <<>>
    /\ NoCallRunning
    /\ \E n \in 0..MaxPages :
          documents = [i \in 1..n |-> PageDocument(i, "Overview", ThreeEvents)]
    /\ chunk_config \in {ProgramConfig, ScenarioConfig}
    /\ child_nodes = create_needle_chunks(documents, chunk_config)
    /\ chunks_table \in {<<>>, EarlierRows(documents, ProgramConfig),
                          EarlierRows(documents, ScenarioConfig)}
    /\ summary_docs = <<>>
    /\ summaries_stored = 0
    /\ index_pc = "chunked"
    /\ index_runs = 1
    /\ NoQueryBefore
    /\ NoSearchRun
    /\ NothingCached
    /\ MainNotStarted
    /\ NothingStored

\* store_in_supabase: the parents added to the docstore, the docstore persisted
PersistDocstore ==
    /\ index_pc = "chunked"
    /\ docstore' = ParentDocstore(documents)
    /\ docstore_file' = docstore'
    /\ index_pc' = "docstore saved"
    /\ UNCHANGED <<tables, online, search_runs, caching, main_run, indexed_data, index_runs, chunks_stored,
                   transaction>>

\* store_in_supabase: create_client or docstore.persist raises
PersistDocstoreFails ==
    /\ index_pc = "chunked"
    /\ docstore' \in {docstore, ParentDocstore(documents)}
    /\ index_pc' = "failed"
    /\ UNCHANGED <<tables, online, search_runs, caching, main_run, indexed_data, index_runs, docstore_file,
                   chunks_stored, transaction>>

\* store_in_supabase: one turn of the loop, the upsert returns data
RestUpsert ==
    /\ index_pc = "docstore saved"
    /\ chunks_stored < Len(child_nodes)
    /\ \E embedding \in ChunkEmbeddings :
          chunks_table' =
              UpsertChunk(chunks_table, StoredChunk(child_nodes[chunks_stored + 1], embedding))
    /\ chunks_stored' = chunks_stored + 1
    /\ UNCHANGED <<summaries_table, parent_docs, online, search_runs, caching, main_run, indexed_data, index_pc,
                   index_runs, docstore, docstore_file, transaction>>

\* store_in_supabase: get_text_embedding raises, outside the try
RestEmbeddingFails ==
    /\ index_pc = "docstore saved"
    /\ chunks_stored < Len(child_nodes)
    /\ index_pc' = "failed"
    /\ UNCHANGED <<tables, online, search_runs, caching, main_run, indexed_data, index_runs, storing>>

\* store_in_supabase: the upsert raises or returns no data (the row written
\* or not): return store_via_postgres(child_nodes, parent_nodes, docstore)
RestUpsertFails ==
    /\ index_pc = "docstore saved"
    /\ chunks_stored < Len(child_nodes)
    /\ \E embedding \in ChunkEmbeddings :
          chunks_table' \in
              {chunks_table,
               UpsertChunk(chunks_table, StoredChunk(child_nodes[chunks_stored + 1], embedding))}
    /\ chunks_stored' = 0
    /\ transaction' = <<>>
    /\ index_pc' = "postgres"
    /\ UNCHANGED <<summaries_table, parent_docs, online, search_runs, caching, main_run, indexed_data,
                   index_runs, docstore, docstore_file>>

\* store_via_postgres: one turn of the loop, cursor.execute of the INSERT
PostgresInsert ==
    /\ index_pc = "postgres"
    /\ chunks_stored < Len(child_nodes)
    /\ \E embedding \in ChunkEmbeddings :
          transaction' =
              Append(transaction, StoredChunk(child_nodes[chunks_stored + 1], embedding))
    /\ chunks_stored' = chunks_stored + 1
    /\ UNCHANGED <<tables, online, search_runs, caching, main_run, indexed_data, index_pc, index_runs,
                   docstore, docstore_file>>

\* store_via_postgres: connect, get_text_embedding or execute raises before
\* the commit: nothing of the transaction is kept
PostgresFails ==
    /\ index_pc = "postgres"
    /\ transaction' = <<>>
    /\ index_pc' = "failed"
    /\ UNCHANGED <<tables, online, search_runs, caching, main_run, indexed_data, index_runs, docstore,
                   docstore_file, chunks_stored>>

\* store_via_postgres: conn.commit() after the loop
PostgresCommit ==
    /\ index_pc = "postgres"
    /\ chunks_stored = Len(child_nodes)
    /\ chunks_table' = CommitRows(chunks_table, transaction)
    /\ index_pc' = "committed"
    /\ UNCHANGED <<summaries_table, parent_docs, online, search_runs, caching, main_run, indexed_data,
                   index_runs, storing>>

\* every chunk went through one of the two loops
ChunksWritten ==
    \/ index_pc = "committed"
    \/ index_pc = "docstore saved" /\ chunks_stored = Len(child_nodes)

\* VectorStoreIndex(...), storage_context.persist(...), return index, docstore
BuildIndex ==
    /\ ChunksWritten
    /\ index_pc' = "needle stored"
    /\ UNCHANGED <<tables, online, search_runs, caching, main_run, indexed_data, index_runs, storing>>

\* VectorStoreIndex(...) or storage_context.persist(...) raises
BuildIndexFails ==
    /\ ChunksWritten
    /\ index_pc' = "failed"
    /\ UNCHANGED <<tables, online, search_runs, caching, main_run, indexed_data, index_runs, storing>>

StoreNext ==
    \/ PersistDocstore
    \/ PersistDocstoreFails
    \/ RestUpsert
    \/ RestEmbeddingFails
    \/ RestUpsertFails
    \/ PostgresInsert
    \/ PostgresFails
    \/ PostgresCommit
    \/ BuildIndex
    \/ BuildIndexFails

StoreSpec == StoreInit /\ [][StoreNext]_vars

(***************************************************************************)
(* Vocabulary of the properties.                                           *)
(***************************************************************************)
\* The context of the running needle query has been built.
NeedleContextBuilt ==
    agent = "needle" /\ pc \in {"generate", "done"} /\ chunks # <<>>

\* How many of the retrieved chunks come from parent p.
RetrievedFrom(p) == Cardinality({i \in DOMAIN chunks : chunks[i].parent_id = p})

\* How many context entries carry the full page text of parent p.
FullPageBlocks(p) ==
    Cardinality({j \in DOMAIN context_parts :
                    /\ context_parts[j].kind = "full_page"
                    /\ context_parts[j].page = p
                    /\ context_parts[j].text = PageText(p)})

\* The context entries that are chunk entries of parent p.
ChunkEntriesOf(p) ==
    {j \in DOMAIN context_parts :
        context_parts[j].kind = "chunk" /\ context_parts[j].page = p}

\* C1 (as stated): with auto-merge on and threshold T, a parent with exactly
\* T-1 retrieved chunks has no full page in the context, and a parent with T
\* or more has its full page in it exactly once.
C1_Original ==
    (NeedleContextBuilt /\ use_auto_merge) =>
        \A p \in Parents :
            /\ RetrievedFrom(p) = merge_threshold - 1 => FullPageBlocks(p) = 0
            /\ RetrievedFrom(p) >= merge_threshold => FullPageBlocks(p) = 1

\* C1 (amended): a parent with exactly T-1 retrieved chunks has no full page
\* in the context; a parent with T or more has its full page in it exactly
\* once when parent_docs holds its text, and not at all when it does not.
C1_Amended ==
    (NeedleContextBuilt /\ use_auto_merge) =>
        \A p \in Parents :
            /\ RetrievedFrom(p) = merge_threshold - 1 => FullPageBlocks(p) = 0
            /\ RetrievedFrom(p) >= merge_threshold =>
                  FullPageBlocks(p) = (IF p \in DOMAIN parent_docs THEN 1 ELSE 0)

C1_Witness ==
    /\ NeedleContextBuilt
    /\ use_auto_merge
    /\ \E p, r \in Parents :
          /\ RetrievedFrom(p) > merge_threshold
          /\ FullPageBlocks(p) = 1
          /\ RetrievedFrom(r) = merge_threshold - 1
          /\ RetrievedFrom(r) >= 1
          /\ r \in DOMAIN parent_docs
          /\ FullPageBlocks(r) = 0

(***************************************************************************)
(* Summary retrieval.                                                      *)
(***************************************************************************)
\* The summary search of the running query has returned its list.
SummarySearchDone ==
    agent = "summary" /\ fetch_status = "ok" /\ pc \in {"generate", "done"}

OverviewRows == {i \in DOMAIN summaries_table : summaries_table[i].summary_type = "Overview"}
OtherRows == {i \in DOMAIN summaries_table : summaries_table[i].summary_type # "Overview"}

\* The rows of the summaries table that the returned list holds.
ReturnedRows == {i \in DOMAIN summaries_table : \E j \in DOMAIN chunks : chunks[j] = summaries_table[i]}

\* C2: every Overview row is in the list search_summaries returns and in the
\* context and the sources of answer_query, whatever its score and however
\* small the requested total.
C2_OverviewAlwaysIncluded ==
    SummarySearchDone =>
        \A i \in OverviewRows :
            LET id == summaries_table[i].summary_id
            IN /\ i \in ReturnedRows
               /\ \E j \in DOMAIN context_parts :
                     /\ context_parts[j].kind = "summary"
                     /\ context_parts[j].summary_id = id
                     /\ context_parts[j].text = <<"summary", id>>
               /\ \E j \in DOMAIN sources : sources[j].summary_id = id
               /\ (pc = "done" =>
                     \E j \in DOMAIN result.sources : result.sources[j].summary_id = id)

\* More Overview rows than the requested total, and one of them scores lower
\* than a row of another type that was left out.
C2_Witness ==
    /\ SummarySearchDone
    /\ pc = "done"
    /\ Cardinality(OverviewRows) > top_k
    /\ OverviewRows \subseteq ReturnedRows
    /\ \E i \in OverviewRows, o \in OtherRows \ ReturnedRows :
          SimilarityLess(query_embedding, summaries_table[i].embedding,
                         summaries_table[o].embedding)

\* C3 (as stated): the list holds min(K - #Overview, #others) rows of another
\* type, the highest scoring ones, when K > #Overview, and none when the
\* Overview rows alone meet or exceed K.
C3_Original ==
    SummarySearchDone =>
        LET n_overview == Cardinality(OverviewRows)
            included == OtherRows \cap ReturnedRows
        IN /\ top_k > n_overview =>
                 /\ Cardinality(included) = Min(top_k - n_overview, Cardinality(OtherRows))
                 /\ \A i \in included, o \in OtherRows \ included :
                       ~SimilarityLess(query_embedding, summaries_table[i].embedding,
                                       summaries_table[o].embedding)
           /\ top_k <= n_overview => included = {}

(***************************************************************************)
(* Similarity retrieval.                                                   *)
(***************************************************************************)
\* The ranked search of the running query has returned: the candidates are
\* the rows of the chunk table, or the rows of the summaries table that are
\* not Overview rows; RankedK is the number of rows asked of the ranking.
Candidates ==
    IF agent = "needle" THEN chunks_table
    ELSE SelectSeq(summaries_table, LAMBDA row : row.summary_type # "Overview")

RankedK ==
    IF agent = "needle" THEN top_k ELSE top_k - Cardinality(OverviewRows)

\* The ranked rows of the returned list (for summaries, after the Overview rows).
Ranked ==
    IF agent = "needle" THEN chunks
    ELSE SubSeq(chunks, Cardinality(OverviewRows) + 1, Len(chunks))

RankedSearchDone ==
    /\ agent \in {"needle", "summary"}
    /\ fetch_status = "ok"
    /\ pc \in {"generate", "done"}
    /\ RankedK >= 0

\* Where a row stands in the order the datastore returned the rows in.
FetchPosition(row) == CHOOSE i \in DOMAIN Candidates : Candidates[i] = row

\* C4: for k >= 0 the ranking returns min(k, n) of the n candidates, in
\* non-increasing score order, none of them scoring lower than a candidate
\* left out, and rows of equal score in the order the datastore returned them.
C4_TopKStableDescending ==
    RankedSearchDone =>
        LET q == query_embedding
            left_out == {c \in DOMAIN Candidates :
                            \A i \in DOMAIN Ranked : Ranked[i] # Candidates[c]}
        IN /\ Len(Ranked) = Min(RankedK, Len(Candidates))
           /\ \A i \in DOMAIN Ranked : \E c \in DOMAIN Candidates : Candidates[c] = Ranked[i]
           /\ \A i, j \in DOMAIN Ranked :
                 i < j =>
                    /\ Ranked[i] # Ranked[j]
                    /\ ~SimilarityLess(q, Ranked[i].embedding, Ranked[j].embedding)
                    /\ SimilarityEqual(q, Ranked[i].embedding, Ranked[j].embedding)
                          => FetchPosition(Ranked[i]) < FetchPosition(Ranked[j])
           /\ \A i \in DOMAIN Ranked, c \in left_out :
                 /\ ~SimilarityLess(q, Ranked[i].embedding, Candidates[c].embedding)
                 /\ SimilarityEqual(q, Ranked[i].embedding, Candidates[c].embedding)
                       => FetchPosition(Ranked[i]) < c

\* A cutoff inside the chunk table, with two returned rows of equal score, a
\* returned row that the datastore returned after a lower scoring one, and a
\* row left out that ties with a returned one.
C4_Witness ==
    /\ RankedSearchDone
    /\ agent = "needle"
    /\ 1 < top_k
    /\ top_k < Len(chunks_table)
    /\ \E i, j \in DOMAIN chunks :
          /\ i < j
          /\ SimilarityEqual(query_embedding, chunks[i].embedding, chunks[j].embedding)
    /\ \E i, j \in DOMAIN chunks :
          /\ i < j
          /\ FetchPosition(chunks[i]) > FetchPosition(chunks[j])
    /\ \E i \in DOMAIN chunks, c \in DOMAIN chunks_table :
          /\ \A j \in DOMAIN chunks : chunks[j] # chunks_table[c]
          /\ SimilarityEqual(query_embedding, chunks[i].embedding, chunks_table[c].embedding)

(***************************************************************************)
(* The generation context of the needle agent.                             *)
(***************************************************************************)
\* The parents auto-merge marks: T or more of the retrieved chunks.
MarkedParents ==
    {p \in Parents : use_auto_merge /\ RetrievedFrom(p) >= merge_threshold}

\* The context starts with one entry per retrieved chunk, in retrieval order.
ChunkEntriesInRetrievalOrder ==
    /\ Len(context_parts) >= Len(chunks)
    /\ \A i \in DOMAIN chunks :
          /\ context_parts[i].kind = "chunk"
          /\ context_parts[i].n = i
          /\ context_parts[i].chunk_id = chunks[i].chunk_id
          /\ context_parts[i].text = <<"content", chunks[i].chunk_id>>
    /\ \A j \in DOMAIN context_parts :
          j > Len(chunks) => context_parts[j].kind # "chunk"

\* threshold 3, top-K 6, and 4 of the 6 retrieved chunks from page_2
Page2Scenario ==
    /\ use_auto_merge
    /\ merge_threshold = 3
    /\ top_k = 6
    /\ Len(chunks) = 6
    /\ RetrievedFrom("page_2") = 4

\* C5 (as stated): the context holds every retrieved chunk in retrieval
\* order and, only after all chunk entries, the full page of each merged
\* parent, one block per merged parent; in the page_2 scenario it holds the
\* 6 chunk texts and the full text of page_2 exactly once.
C5_Original ==
    NeedleContextBuilt =>
        /\ ChunkEntriesInRetrievalOrder
        /\ \A j \in DOMAIN context_parts :
              context_parts[j].kind = "full_page" => j > Len(chunks)
        /\ \A p \in Parents : FullPageBlocks(p) = (IF p \in MarkedParents THEN 1 ELSE 0)
        /\ Page2Scenario =>
              /\ Cardinality({j \in DOMAIN context_parts : context_parts[j].kind = "chunk"}) = 6
              /\ FullPageBlocks("page_2") = 1

\* C5 (amended): as stated, with one block per merged parent whose text
\* parent_docs holds and none for any other parent; the page_2 scenario
\* holds when parent_docs holds the text of page_2.
C5_Amended ==
    NeedleContextBuilt =>
        /\ ChunkEntriesInRetrievalOrder
        /\ \A j \in DOMAIN context_parts :
              context_parts[j].kind = "full_page" => j > Len(chunks)
        /\ \A p \in Parents :
              FullPageBlocks(p) =
                 (IF p \in MarkedParents /\ p \in DOMAIN parent_docs THEN 1 ELSE 0)
        /\ (Page2Scenario /\ "page_2" \in DOMAIN parent_docs) =>
              /\ Cardinality({j \in DOMAIN context_parts : context_parts[j].kind = "chunk"}) = 6
              /\ FullPageBlocks("page_2") = 1

C5_Witness ==
    /\ NeedleContextBuilt
    /\ Page2Scenario
    /\ "page_2" \in DOMAIN parent_docs
    /\ FullPageBlocks("page_2") = 1
    /\ \E i, j \in DOMAIN chunks :
          i < j /\ chunks[i].chunk_id > chunks[j].chunk_id

C7_RouteLabel ==
    pc = "routed" =>
        /\ route_result \in {needle, summary}
        /\ raised = "none"
        /\ IF classifier_response \in {CallFailed, NoContent}
           THEN route_result = needle
           ELSE LET text == StrUpper(StrStrip(classifier_response))
                IN /\ text = NEEDLE => route_result = needle
                   /\ text = SUMMARY => route_result = summary
                   /\ text \notin {NEEDLE, SUMMARY} => route_result = needle
        /\ classifier_response = <<" ">> \o NEEDLE \o <<"\n">> => route_result = needle
        /\ classifier_response = <<"S", "u", "m", "m", "a", "r", "y">> => route_result = summary
        /\ classifier_response = SUMMARY \o <<" ">> \o NEEDLE => route_result = needle
        /\ classifier_response = NEEDLE \o <<".">> => route_result = needle
        /\ classifier_response = <<>> => route_result = needle

C7_Witness ==
    /\ pc = "routed"
    /\ classifier_response = <<"\n">> \o summary \o <<" ", " ">>
    /\ route_result = summary

(***************************************************************************)
(* Failures.                                                               *)
(***************************************************************************)
\* C8 (as stated): against an empty chunk table the needle agent returns
\* chunks_used = 0, parent_pages_used = 0, no sources and the fixed answer,
\* and never raises.
C8_Original ==
    (agent = "needle" /\ chunks_table = <<>>) =>
        /\ pc # "raised"
        /\ raised = "none"
        /\ pc = "done" =>
              result = [answer |-> NOT_FOUND_ANSWER, sources |-> <<>>,
                        chunks_used |-> 0, parent_pages_used |-> 0]

\* C8 (amended): against an empty chunk table the needle agent returns
\* chunks_used = 0, parent_pages_used = 0, no sources and the fixed answer
\* without calling the generator; the only exception it raises is the one of
\* a failed embedding call, raised before the table is read.
C8_Amended ==
    (agent = "needle" /\ chunks_table = <<>>) =>
        /\ pc \in {"embed", "fetch", "done", "raised"}
        /\ generation = "none"
        /\ pc = "done" =>
              /\ raised = "none"
              /\ result = [answer |-> NOT_FOUND_ANSWER, sources |-> <<>>,
                           chunks_used |-> 0, parent_pages_used |-> 0]
        /\ pc = "raised" =>
              /\ raised = "embedding error"
              /\ query_embedding = NoValue
              /\ fetch_status = "none"
              /\ result = NoResult

C8_Witness ==
    /\ agent = "needle"
    /\ chunks_table = <<>>
    /\ top_k > 0
    /\ fetch_status = "ok"
    /\ pc = "done"
    /\ result.chunks_used = 0
    /\ result.answer = NOT_FOUND_ANSWER

\* C9: when the generation call fails after a successful retrieval, either
\* agent returns the fixed error answer with the sources and counts of the
\* retrieval, the same it returns with the generated answer.
C9_GenerationFailureKeepsSources ==
    (pc = "done" /\ generation # "none") =>
        /\ raised = "none"
        /\ result.answer = (IF generation = "failed" THEN GENERATION_ERROR_ANSWER
                            ELSE GENERATED_ANSWER)
        /\ Len(result.sources) = Len(chunks)
        /\ Len(chunks) > 0
        /\ IF agent = "needle"
           THEN /\ \A i \in DOMAIN chunks :
                      /\ result.sources[i].chunk_id = chunks[i].chunk_id
                      /\ result.sources[i].page = chunks[i].parent_id
                      /\ result.sources[i].content = <<"content", chunks[i].chunk_id>>
                /\ result.chunks_used = Len(chunks)
                /\ result.parent_pages_used =
                      Cardinality({j \in DOMAIN context_parts :
                                      context_parts[j].kind = "full_page"})
           ELSE /\ \A i \in DOMAIN chunks :
                      /\ result.sources[i].summary_id = chunks[i].summary_id
                      /\ result.sources[i].type = chunks[i].summary_type
                      /\ result.sources[i].summary = <<"summary", chunks[i].summary_id>>
                /\ result.summaries_used = Len(chunks)

C9_Witness ==
    /\ pc = "done"
    /\ agent = "needle"
    /\ generation = "failed"
    /\ result.answer = GENERATION_ERROR_ANSWER
    /\ result.chunks_used > 2
    /\ result.parent_pages_used = 1
    /\ Len(result.sources) = result.chunks_used

\* The table the running agent reads.
AgentTable == IF agent = "needle" THEN chunks_table ELSE summaries_table

\* The not-found result of the running agent.
NotFoundResult ==
    IF agent = "needle"
    THEN [answer |-> NOT_FOUND_ANSWER, sources |-> <<>>, chunks_used |-> 0,
          parent_pages_used |-> 0]
    ELSE [answer |-> NOT_FOUND_ANSWER, sources |-> <<>>, summaries_used |-> 0]

\* C10 (as stated): when the embedding call fails or the datastore is empty,
\* answer_query returns the not-found result instead of raising: the caller
\* gets a result in every case.
C10_Original ==
    agent \in {"needle", "summary"} =>
        /\ pc # "raised"
        /\ (pc = "done" /\ AgentTable = <<>>) => result = NotFoundResult

\* C10 (amended): when the datastore is empty or the select fails,
\* answer_query returns the not-found result with empty sources instead of
\* raising; when the embedding call fails the exception reaches the caller
\* and no result is returned.
C10_Amended ==
    agent \in {"needle", "summary"} =>
        /\ (pc = "done" /\ (AgentTable = <<>> \/ fetch_status = "failed")) =>
              /\ result = NotFoundResult
              /\ raised = "none"
              /\ generation = "none"
        /\ pc = "raised" =>
              /\ raised = "embedding error"
              /\ query_embedding = NoValue
              /\ fetch_status = "none"
              /\ result = NoResult

C10_Witness ==
    /\ agent = "summary"
    /\ pc = "done"
    /\ fetch_status = "failed"
    /\ summaries_table # <<>>
    /\ result.answer = NOT_FOUND_ANSWER
    /\ result.sources = <<>>

(***************************************************************************)
(* C11.  A failure of the embedding provider during NeedleAgent            *)
(* .answer_query aborts the query with an error raised to the caller: the  *)
(* embedding call is the only external call of the query (no datastore     *)
(* fetch, no generation call follows) and no result object is returned.    *)
(***************************************************************************)
NeedleEmbeddingFailed ==
    /\ agent = "needle"
    /\ \E i \in 1..Len(calls) : calls[i] = Call("needle", "embed", "raised")

C11_EmbeddingFailureAborts ==
    NeedleEmbeddingFailed =>
        /\ pc = "raised"
        /\ raised = "embedding error"
        /\ calls = <<Call("needle", "embed", "raised")>>
        /\ fetch_status = "none"
        /\ generation = "none"
        /\ chunks = <<>>
        /\ result = NoResult

\* The embedding call of a needle query over a non-empty table has failed.
C11_Witness ==
    /\ NeedleEmbeddingFailed
    /\ chunks_table # <<>>
    /\ pc = "raised"

(***************************************************************************)
(* Vocabulary of the chunking properties.                                  *)
(***************************************************************************)
\* create_needle_chunks has returned its child nodes.
Chunked == index_pc = "chunked"

PageNumbers == 1..Len(documents)

\* the child nodes of page p, in emission order
PageNodes(p) == SelectSeq(child_nodes, LAMBDA node : node.parent_id = documents[p].id_)

PageSentences(p) == split_into_sentences(documents[p].text)

\* text starts with prefix
StartsWith(text, prefix) ==
    Len(prefix) <= Len(text) /\ \A i \in 1..Len(prefix) : text[i] = prefix[i]

\* text ends with suffix
EndsWith(text, suffix) ==
    /\ Len(suffix) <= Len(text)
    /\ SubSeq(text, Len(text) - Len(suffix) + 1, Len(text)) = suffix

(***************************************************************************)
(* C12.  No child chunk emitted by create_needle_chunks has text shorter   *)
(* than MIN_CHUNK_SIZE, except when it is the only chunk of its page.      *)
(* The code merges only a short LAST chunk: a chunk closed because the     *)
(* next sentence does not fit stays as short as it is.                     *)
(***************************************************************************)
C12_Original ==
    (Chunked /\ chunk_config = ProgramConfig) =>
        \A p \in PageNumbers :
            Len(PageNodes(p)) > 1 =>
                \A k \in 1..Len(PageNodes(p)) :
                    Len(PageNodes(p)[k].text) >= MIN_CHUNK_SIZE

(***************************************************************************)
(* C13.  For two consecutive child chunks i and i+1 of the same page, the  *)
(* sentences carried over from chunk i to the start of chunk i+1 are whole *)
(* sentences forming a suffix of chunk i's sentence list, and their        *)
(* space-joined length is at most CHUNK_OVERLAP.                           *)
(***************************************************************************)
\* The positions at the start of chunk b that chunk a already holds.
RECURSIVE CarriedOver(_, _, _)
CarriedOver(a, b, k) ==
    IF k <= Len(b.sentence_positions)
       /\ b.sentence_positions[k] <= a.sentence_positions[Len(a.sentence_positions)]
    THEN <<b.sentence_positions[k]>> \o CarriedOver(a, b, k + 1)
    ELSE <<>>

C13_OverlapWithinLimit ==
    Chunked =>
        \A p \in PageNumbers :
            \A k \in 1..(Len(PageNodes(p)) - 1) :
                LET a == PageNodes(p)[k]
                    b == PageNodes(p)[k + 1]
                    carried == CarriedOver(a, b, 1)
                    sentences == PageSentences(p)
                    carried_text == JoinSpace(SentenceTexts(sentences, carried))
                    n == Len(a.sentence_positions)
                IN /\ Len(carried) <= n
                   /\ carried = SubSeq(a.sentence_positions, n - Len(carried) + 1, n)
                   /\ Len(carried) < Len(b.sentence_positions)
                   /\ carried # <<>> =>
                        /\ EndsWith(a.text, carried_text)
                        /\ StartsWith(b.text, carried_text \o <<" ">>)
                        /\ Len(carried_text) <= chunk_config.CHUNK_OVERLAP

\* Two sentences are carried over together under the program's configuration.
C13_Witness ==
    /\ Chunked
    /\ chunk_config = ProgramConfig
    /\ \E p \in PageNumbers :
          \E k \in 1..(Len(PageNodes(p)) - 1) :
             Len(CarriedOver(PageNodes(p)[k], PageNodes(p)[k + 1], 1)) = 2

(***************************************************************************)
(* C14.  Every child chunk's text is a space-joined sequence of whole      *)
(* sentences of its page as produced by split_into_sentences: no chunk     *)
(* starts or ends inside a sentence, also a chunk enlarged by a tail-merge.*)
(***************************************************************************)
\* text is s1 + " " + s2 + ... for sentences s1, s2, ... of the set
RECURSIVE IsJoinOf(_, _)
IsJoinOf(text, sentence_set) ==
    \/ text \in sentence_set
    \/ \E s \in sentence_set :
          /\ StartsWith(text, s \o <<" ">>)
          /\ IsJoinOf(SubSeq(text, Len(s) + 2, Len(text)), sentence_set)

SentenceSet(p) ==
    LET sentences == PageSentences(p) IN {sentences[i] : i \in 1..Len(sentences)}

C14_WholeSentences ==
    Chunked =>
        \A p \in PageNumbers :
            LET sentence_set == SentenceSet(p)
                nodes == PageNodes(p)
            IN \A k \in 1..Len(nodes) :
                  /\ IsJoinOf(nodes[k].text, sentence_set)
                  /\ nodes[k].chunk_size = Len(nodes[k].text)

\* A short tail was merged into the chunk before it, which repeats the
\* sentence carried over into the tail.
C14_Witness ==
    /\ Chunked
    /\ \E p \in PageNumbers :
          \E k \in 1..Len(PageNodes(p)) :
             LET positions == PageNodes(p)[k].sentence_positions
             IN \E j \in 1..(Len(positions) - 1) : positions[j + 1] <= positions[j]

(***************************************************************************)
(* C15.  With CHUNK_SIZE = 50 and CHUNK_OVERLAP = 10 the page "Event A     *)
(* happened. Event B happened next. Event C followed." gives at least two  *)
(* child chunks: the first ends with "Event B happened next.", the second  *)
(* begins with a repeat of that sentence followed by "Event C followed.".  *)
(* The code carries over no sentence longer than CHUNK_OVERLAP.            *)
(***************************************************************************)
ThreeEventsScenario ==
    /\ Chunked
    /\ chunk_config = ScenarioConfig
    /\ documents # <<>>
    /\ documents[1].text = ThreeEvents

C15_Original ==
    ThreeEventsScenario =>
        /\ Len(PageNodes(1)) >= 2
        /\ EndsWith(PageNodes(1)[1].text, EventB)
        /\ StartsWith(PageNodes(1)[2].text, EventB \o <<" ">> \o EventC)

(***************************************************************************)
(* C16.  For a page whose text yields zero sentences (empty or blank       *)
(* text), create_needle_chunks emits exactly one child chunk for the page, *)
(* whose text equals the page text.  The code emits no chunk for it.       *)
(***************************************************************************)
C16_Original ==
    Chunked =>
        \A p \in PageNumbers :
            PageSentences(p) = <<>> =>
                /\ Len(PageNodes(p)) = 1
                /\ PageNodes(p)[1].text = documents[p].text

(***************************************************************************)
(* C17.  Within each page the child chunks carry chunk_index 0, 1, ...,    *)
(* n-1 in emission order with no gap (also after a tail-merge), chunk_id   *)
(* "<parent_id>_chunk_<chunk_index>" and parent_id equal to the page id,   *)
(* so that chunk ids are pairwise distinct across all pages.               *)
(***************************************************************************)
C17_ChunkIdentity ==
    Chunked =>
        /\ \A k \in 1..Len(child_nodes) :
              \E p \in PageNumbers : child_nodes[k].parent_id = documents[p].id_
        /\ \A p \in PageNumbers :
              \A k \in 1..Len(PageNodes(p)) :
                 /\ PageNodes(p)[k].chunk_index = k - 1
                 /\ PageNodes(p)[k].chunk_id =
                        documents[p].id_ \o <<"_", "c", "h", "u", "n", "k", "_">>
                            \o Decimal(k - 1)
        /\ \A j, k \in 1..Len(child_nodes) :
              j # k => child_nodes[j].chunk_id # child_nodes[k].chunk_id

\* Two pages with several chunks each, the first page's last chunk enlarged
\* by a tail-merge (it holds several sentences and more than CHUNK_SIZE).
C17_Witness ==
    /\ Chunked
    /\ Len(documents) >= 2
    /\ Len(PageNodes(1)) >= 2
    /\ Len(PageNodes(2)) >= 2
    /\ chunk_config = ProgramConfig
    /\ LET last == PageNodes(1)[Len(PageNodes(1))]
       IN last.num_sentences >= 2 /\ last.chunk_size > CHUNK_SIZE

(***************************************************************************)
(* C18.  create_summary_chunks produces exactly one summary per input      *)
(* page, with summary_id "<page_id>_summary" and summary_type equal to the *)
(* page's type; after store_summaries_in_supabase the summaries collection *)
(* holds exactly one record per page id, also when the indexing is run     *)
(* again over the same pages.                                              *)
(***************************************************************************)
\* the rows of the summaries collection that belong to page p
SummaryRowsOf(p) ==
    {j \in 1..Len(summaries_table) :
        summaries_table[j].summary_id =
            documents[p].page_id \o <<"_", "s", "u", "m", "m", "a", "r", "y">>}

C18_OneSummaryPerPage ==
    /\ index_pc \in {"summarized", "stored"} =>
          /\ Len(summary_docs) = Len(documents)
          /\ \A p \in PageNumbers :
                /\ summary_docs[p].summary_id =
                       documents[p].page_id \o <<"_", "s", "u", "m", "m", "a", "r", "y">>
                /\ summary_docs[p].summary_type = documents[p].type
    /\ index_pc = "stored" =>
          /\ Len(summaries_table) = Len(documents)
          /\ \A p \in PageNumbers :
                /\ Cardinality(SummaryRowsOf(p)) = 1
                /\ \A j \in SummaryRowsOf(p) :
                      summaries_table[j].summary_type = documents[p].type

\* The second indexing run over two pages has stored its summaries.
C18_Witness ==
    /\ index_pc = "stored"
    /\ index_runs = 2
    /\ Len(documents) = 2
    /\ Len(summaries_table) = 2

(***************************************************************************)
(* C19.  In run_single_query every query is first classified by the router *)
(* and then answered by exactly one engine: the needle engine if and only  *)
(* if the route is 'needle', otherwise the summary engine; no engine is    *)
(* invoked before the router has returned, and a router failure leads to   *)
(* the needle engine.                                                      *)
(***************************************************************************)
\* run_single_query is between the return of route and the return of the engine
Routed == route_result # NoValue

C19_RouterThenOneEngine ==
    /\ pc = "routed" =>
          /\ Routed
          /\ agent = "none"
          /\ calls = <<>>
          /\ classifier_response \in ClassifierOutcomes
          /\ classifier_response = CallFailed => route_result = needle
    /\ (Routed /\ pc # "routed") =>
          /\ agent \in {"needle", "summary"}
          /\ agent = "needle" <=> route_result = <<"n", "e", "e", "d", "l", "e">>
          /\ \A i \in 1..Len(calls) : calls[i].agent = agent
    /\ (agent # "none" \/ calls # <<>>) => pc \notin {"idle", "routed"}

\* A query routed to 'summary' has been answered by the summary engine.
C19_Witness ==
    /\ route_result = summary
    /\ agent = "summary"
    /\ pc = "done"
    /\ Len(calls) = 3

(***************************************************************************)
(* C20.  Each answer_query call (either engine) makes its external calls   *)
(* in the strict order embed, fetch-all, generate: the fetch is never      *)
(* issued before the embedding call has returned, the generation never     *)
(* before the fetch has returned, and none of the three is issued more     *)
(* than once or retried within one query.                                  *)
(***************************************************************************)
CallOrder == <<"embed", "fetch", "generate">>

C20_EmbedFetchGenerateOnce ==
    /\ Len(calls) <= Len(CallOrder)
    /\ \A i \in 1..Len(calls) :
          /\ calls[i].call = CallOrder[i]
          /\ calls[i].agent = agent
          /\ i < Len(calls) => calls[i].outcome = "returned"
    /\ pc = "fetch" => Len(calls) = 1
    /\ pc = "generate" => Len(calls) = 2

\* A needle query whose three calls were all issued, the last one failing.
C20_Witness ==
    /\ agent = "needle"
    /\ Len(calls) = 3
    /\ calls[3].outcome = "raised"

(***************************************************************************)
(* C21.  No call of search_chunks, search_summaries or answer_query writes *)
(* to the datastore or changes the loaded parent documents: after any      *)
(* sequence of queries the chunk collection, the summary collection and    *)
(* the parent map are equal to their values before it, and the result of a *)
(* query does not depend on which queries ran before it (it is the result  *)
(* computed from those first values and the query's own inputs).           *)
(***************************************************************************)
\* search_chunks over the chunk collection as it was before the first query
ChunksFoundBefore ==
    IF tables_before[1] = <<>> THEN <<>>
    ELSE TopChunks(query_embedding, tables_before[1], top_k)

\* search_summaries over the summary collection as it was before the first query
SummariesFoundBefore ==
    IF tables_before[2] = <<>> THEN <<>>
    ELSE FinalSummaries(query_embedding, tables_before[2], top_k)

\* the pages merged over the parent map as it was before the first query
PagesMergedBefore ==
    NeedleContext(ChunksFoundBefore,
                  ParentsToMerge(ChunksFoundBefore, merge_threshold, use_auto_merge),
                  tables_before[3]).added

C21_QueriesLeaveStoreUnchanged ==
    /\ chunks_table = tables_before[1]
    /\ summaries_table = tables_before[2]
    /\ parent_docs = tables_before[3]
    /\ (agent = "needle" /\ fetch_status = "ok") =>
          /\ chunks = ChunksFoundBefore
          /\ (pc = "done" /\ generation = "ok") =>
                result = [answer |-> GENERATED_ANSWER,
                          sources |-> NeedleSources(ChunksFoundBefore),
                          chunks_used |-> Len(ChunksFoundBefore),
                          parent_pages_used |-> Cardinality(PagesMergedBefore)]
    /\ (agent = "summary" /\ fetch_status = "ok") =>
          /\ chunks = SummariesFoundBefore
          /\ (pc = "done" /\ generation = "ok") =>
                result = [answer |-> GENERATED_ANSWER,
                          sources |-> SummarySources(SummariesFoundBefore),
                          summaries_used |-> Len(SummariesFoundBefore)]

\* A needle query that merged a page has been answered after an earlier query.
C21_Witness ==
    /\ earlier_queries
    /\ agent = "needle"
    /\ pc = "done"
    /\ generation = "ok"
    /\ result.parent_pages_used >= 1

TailMerged(p) ==
    LET sentences == PageSentences(p)
        st == SentenceLoop(documents[p], chunk_config, sentences, 1, NoChunks)
        tail == st.current_chunk_sentences
    IN /\ tail # <<>>
       /\ st.chunks # <<>>
       /\ Len(JoinSpace(SentenceTexts(sentences, tail))) < chunk_config.MIN_CHUNK_SIZE

C23_Original ==
    Chunked =>
        \A p \in PageNumbers :
            LET nodes == PageNodes(p)
                merged == TailMerged(p)
            IN \A k \in 1..Len(nodes) :
                  (nodes[k].num_sentences >= 2 /\ ~(k = Len(nodes) /\ merged)) =>
                      Len(nodes[k].text) <= chunk_config.CHUNK_SIZE

(***************************************************************************)
(* C24.  The sentences of each child chunk form one contiguous run of the  *)
(* page's sentence sequence: within a single chunk no sentence occurrence  *)
(* is repeated and none is skipped, including in a chunk produced by       *)
(* merging a short tail chunk into its predecessor.  The code appends the  *)
(* tail with the sentences carried over into it, which the predecessor     *)
(* holds already.                                                          *)
(***************************************************************************)
\* positions is first, first + 1, ..., without a gap and without a repeat
ContiguousRun(positions) ==
    \A j \in 1..(Len(positions) - 1) : positions[j + 1] = positions[j] + 1

C24_Original ==
    Chunked =>
        \A p \in PageNumbers :
            \A k \in 1..Len(PageNodes(p)) :
                LET node == PageNodes(p)[k]
                IN /\ ContiguousRun(node.sentence_positions)
                   /\ node.text =
                          JoinSpace(SentenceTexts(PageSentences(p), node.sentence_positions))

(***************************************************************************)
(* C25.  Every sentence of a page appears in at least one of the page's    *)
(* child chunks, and the chunks read in chunk_index order present the      *)
(* sentences in page order: no sentence is lost when a chunk is closed,    *)
(* when the next chunk is seeded with overlap, or when a short tail is     *)
(* merged.                                                                 *)
(***************************************************************************)
\* the sentence positions of the chunks of page p, read chunk after chunk
RECURSIVE PositionsRead(_, _)
PositionsRead(nodes, k) ==
    IF k > Len(nodes) THEN <<>>
    ELSE nodes[k].sentence_positions \o PositionsRead(nodes, k + 1)

C25_NoSentenceLost ==
    Chunked =>
        \A p \in PageNumbers :
            LET sentences == PageSentences(p)
                nodes == PageNodes(p)
                read == PositionsRead(nodes, 1)
            IN /\ {read[j] : j \in 1..Len(read)} = 1..Len(sentences)
               /\ read # <<>> => read[1] = 1
               /\ \A j \in 1..(Len(read) - 1) : read[j + 1] <= read[j] + 1
               /\ \A k \in 1..Len(nodes) :
                     /\ nodes[k].chunk_index = k - 1
                     /\ nodes[k].text =
                            JoinSpace(SentenceTexts(sentences, nodes[k].sentence_positions))

\* A page of four sentences: a chunk was closed, the next one seeded with a
\* sentence carried over, and the short tail merged into it.
C25_Witness ==
    /\ Chunked
    /\ documents # <<>>
    /\ Len(PageSentences(1)) = 4
    /\ Len(PageNodes(1)) = 2
    /\ CarriedOver(PageNodes(1)[1], PageNodes(1)[2], 1) # <<>>
    /\ TailMerged(1)

(***************************************************************************)
(* C26.  The generator is called only when retrieval returned at least one *)
(* unit: when the fetch returns no records or the fetch call itself fails, *)
(* answer_query (either engine) returns the not-found result with empty    *)
(* sources and zero counts and makes no generation call.                   *)
(***************************************************************************)
\* the running answer_query has issued its chat completion call
GeneratorCalled == \E i \in 1..Len(calls) : calls[i].call = "generate"

C26_GeneratorOnlyOnRetrieval ==
    agent \in {"needle", "summary"} =>
        /\ (pc = "generate" \/ GeneratorCalled) =>
              /\ fetch_status = "ok"
              /\ chunks # <<>>
              /\ AgentTable # <<>>
        /\ (pc = "done" /\ chunks = <<>>) =>
              /\ ~GeneratorCalled
              /\ generation = "none"
              /\ Len(calls) = 2
              /\ result.answer = NOT_FOUND_ANSWER
              /\ result.sources = <<>>
              /\ agent = "needle" =>
                    result.chunks_used = 0 /\ result.parent_pages_used = 0
              /\ agent = "summary" => result.summaries_used = 0
        /\ (pc = "done" /\ (fetch_status = "failed" \/ AgentTable = <<>>)) => chunks = <<>>

\* The needle engine fetched an empty chunk collection and returned.
C26_Witness ==
    /\ agent = "needle"
    /\ pc = "done"
    /\ fetch_status = "ok"
    /\ chunks_table = <<>>
    /\ Len(calls) = 2
    /\ result.chunks_used = 0

(***************************************************************************)
(* C27.  For merge threshold T >= 1 and top-K K >= 0, every result of      *)
(* NeedleAgent.answer_query satisfies parent_pages_used * T <= chunks_used *)
(* <= K, chunks_used equals the number of entries of sources, and          *)
(* parent_pages_used never exceeds the number of distinct parents among    *)
(* the retrieved chunks.                                                   *)
(***************************************************************************)
\* the distinct parents among the retrieved chunks
RetrievedParents == {chunks[i].parent_id : i \in DOMAIN chunks}

C27_ResultCounts ==
    (agent = "needle" /\ pc = "done" /\ merge_threshold >= 1 /\ top_k >= 0) =>
        /\ result.parent_pages_used * merge_threshold <= result.chunks_used
        /\ result.chunks_used <= top_k
        /\ result.chunks_used = Len(result.sources)
        /\ result.chunks_used = Len(chunks)
        /\ result.parent_pages_used <= Cardinality(RetrievedParents)

\* Two pages merged out of six retrieved chunks with threshold 3 and top-K 6:
\* both bounds are met with equality.
C27_Witness ==
    /\ agent = "needle"
    /\ pc = "done"
    /\ merge_threshold = 3
    /\ top_k = 6
    /\ result.chunks_used = 6
    /\ result.parent_pages_used = 2

(***************************************************************************)
(* C28.  In store_in_supabase all parent pages are added to the docstore   *)
(* and persisted before the first chunk is upserted; if any REST upsert    *)
(* fails or returns no data, store_via_postgres writes every child chunk   *)
(* again from the first one with insert-or-update on chunk_id, so that     *)
(* whenever the function returns normally the chunk table holds exactly    *)
(* one record for each child chunk id and every stored chunk's parent_id   *)
(* is in the docstore.                                                     *)
(***************************************************************************)
\* the persisted docstore holds every parent page
ParentsPersisted ==
    \A p \in PageNumbers :
        /\ documents[p].id_ \in DOMAIN docstore_file
        /\ docstore_file[documents[p].id_] = documents[p].text

\* the rows of the chunk table with the chunk id of node
ChunkRowsOf(node) ==
    {j \in 1..Len(chunks_table) : chunks_table[j].chunk_id = node.chunk_id}

\* store_via_postgres was entered
FellBack == index_pc \in {"postgres", "committed"} \/ transaction # <<>>

C28_ChunksStoredOnce ==
    /\ (chunks_table # tables_before[1] \/ transaction # <<>>) => ParentsPersisted
    /\ index_pc = "postgres" =>
          /\ Len(transaction) = chunks_stored
          /\ \A i \in 1..Len(transaction) :
                transaction[i].chunk_id = child_nodes[i].chunk_id
    /\ (FellBack /\ index_pc \in {"committed", "needle stored"}) =>
          /\ Len(transaction) = Len(child_nodes)
          /\ \A i \in 1..Len(child_nodes) :
                /\ transaction[i].chunk_id = child_nodes[i].chunk_id
                /\ \A j \in ChunkRowsOf(child_nodes[i]) : chunks_table[j] = transaction[i]
    /\ index_pc = "needle stored" =>
          /\ \A i \in 1..Len(child_nodes) :
                /\ Cardinality(ChunkRowsOf(child_nodes[i])) = 1
                /\ \A j \in ChunkRowsOf(child_nodes[i]) :
                      /\ chunks_table[j].content = child_nodes[i].text
                      /\ chunks_table[j].parent_id = child_nodes[i].parent_id
                      /\ chunks_table[j].chunk_index = child_nodes[i].chunk_index
          /\ \A j \in 1..Len(chunks_table) :
                chunks_table[j].parent_id \in DOMAIN docstore_file

\* store_in_supabase has returned through store_via_postgres: four chunks
\* were written over the rows of an earlier run.
C28_Witness ==
    /\ index_pc = "needle stored"
    /\ transaction # <<>>
    /\ tables_before[1] # <<>>
    /\ Len(child_nodes) = 4
    /\ Len(chunks_table) = 4

\* ---------------------------------------------------------------------
\* The QA answer cache (src/QA/run_qa_tests.py)
\* ---------------------------------------------------------------------

\* Calls of save_cached_answers followed in one behaviour.
MaxSaves == 2

\* The test types save_cached_answers merges, run_qa_tests.py line 90.
TestTypes == {"needle_answers", "summary_answers", "routing_answers"}

\* Test ids of a test dataset.
TestIds == {"test_1", "test_2"}

\* The runner that collects the answers of a test type.
RunnerOf(test_type) ==
    CASE test_type = "needle_answers" -> "run_needle_tests"
      [] test_type = "summary_answers" -> "run_summary_tests"
      [] test_type = "routing_answers" -> "run_routing_tests"

\* Answers an earlier run left in the cache file, stamped at time 0.
CachedBefore(ids) == [i \in ids |-> [answer |-> "earlier", cached_at |-> 0]]

\* Answers the collector has just produced; they carry no timestamp yet.
FreshAnswers(ids) == [i \in ids |-> [answer |-> "fresh"]]

\* The cache files a call can find: each test type absent, or present with
\* any set of tests.
CacheFiles ==
    UNION { [T -> {CachedBefore(ids) : ids \in SUBSET TestIds}] : T \in SUBSET TestTypes }

\* load_cached_answers: the content of the file, {} when there is none.
load_cached_answers(file) == file.entries

\* The merge of save_cached_answers, lines 86-98: every test of every test
\* type in `answers` is stamped with the current time and written over the
\* entry of the same id; all other entries stay.
save_cached_answers(answers, existing_cache, now) ==
    LET given == TestTypes \cap DOMAIN answers
    IN  [test_type \in DOMAIN existing_cache \cup given |->
            LET old == IF test_type \in DOMAIN existing_cache
                       THEN existing_cache[test_type] ELSE <<>>
                new == IF test_type \in given THEN answers[test_type] ELSE <<>>
            IN  [test_id \in DOMAIN old \cup DOMAIN new |->
                    IF test_id \in DOMAIN new
                    THEN [answer |-> new[test_id].answer, cached_at |-> now]
                    ELSE old[test_id]]]

\* cached_data[test_type] = answers_dict, lines 144, 194, 234.
WithAnswers(cached_data, test_type, answers_dict) ==
    [t \in DOMAIN cached_data \cup {test_type} |->
        IF t = test_type THEN answers_dict ELSE cached_data[t]]

CacheInit ==
    /\ chunks_table = <<>>
    /\ summaries_table = <<>>
    /\ parent_docs = <<>>
    /\ NoCallRunning
    /\ NothingIndexed
    /\ NoQueryBefore
    /\ NoSearchRun
    /\ NothingStored
    /\ MainNotStarted
    /\ cache_file \in {[entries |-> e, last_updated |-> 0] : e \in CacheFiles}
    /\ last_save = [caller |-> "none"]
    /\ clock = 1

\* One call save_cached_answers(answers, cache_file) that writes the file.
Save(caller, collected, answers) ==
    /\ clock <= MaxSaves
    /\ cache_file' = [entries |-> save_cached_answers(answers,
                                      load_cached_answers(cache_file), clock),
                      last_updated |-> clock]
    /\ last_save' = [caller |-> caller, collected |-> collected,
                     before |-> cache_file.entries]
    /\ clock' = clock + 1
    /\ UNCHANGED <<tables, online, indexing, search_runs, storing, main_run>>

\* save_cached_answers called with answers of some test types only.
SaveCachedAnswers ==
    \E T \in SUBSET TestTypes \ {{}} :
        \E answers \in [T -> {FreshAnswers(ids) : ids \in SUBSET TestIds \ {{}}}] :
            Save("save_cached_answers", answers, answers)

\* save_cached_answers raises before the file is written (lines 84, 108):
\* the exception is printed and the file is left as it was.
SaveCachedAnswersFails ==
    /\ clock <= MaxSaves
    /\ \E T \in SUBSET TestTypes \ {{}} :
          \E answers \in [T -> {FreshAnswers(ids) : ids \in SUBSET TestIds \ {{}}}] :
             last_save' = [caller |-> "save_cached_answers", collected |-> answers,
                           before |-> cache_file.entries]
    /\ clock' = clock + 1
    /\ UNCHANGED <<tables, online, indexing, search_runs, storing, main_run, cache_file>>

\* run_needle_tests, run_summary_tests, run_routing_tests, lines 133-145,
\* 183-195, 223-235: unless the cached answers are used, the answers are
\* collected, put into the loaded cache and the whole of it is saved.
RunTests(test_type) ==
    \E use_cached \in BOOLEAN, ids \in SUBSET TestIds \ {{}} :
        LET cached_data == load_cached_answers(cache_file)
            answers_dict == FreshAnswers(ids)
        IN  /\ ~(use_cached /\ test_type \in DOMAIN cached_data)
            /\ Save(RunnerOf(test_type), [t \in {test_type} |-> answers_dict],
                    WithAnswers(cached_data, test_type, answers_dict))

RunNeedleTests == RunTests("needle_answers")

RunSummaryTests == RunTests("summary_answers")

RunRoutingTests == RunTests("routing_answers")

CacheNext ==
    \/ SaveCachedAnswers
    \/ SaveCachedAnswersFails
    \/ RunNeedleTests
    \/ RunSummaryTests
    \/ RunRoutingTests

CacheSpec == CacheInit /\ [][CacheNext]_vars

\* The tests of the cache as pairs (test type, test id).
CacheEntries(cache) == {<<t, i>> \in TestTypes \X TestIds : t \in DOMAIN cache /\ i \in DOMAIN cache[t]}

\* The tests the last call collected answers for.
CollectedEntries == CacheEntries(last_save.collected)

\* C29: save_cached_answers never deletes a cached answer: every (test type,
\* test id) entry of the cache file before the call is present after it, every
\* entry whose test type or test id does not occur in the new answers keeps
\* its previous content, and running the needle tests leaves the cached
\* summary and routing answers unchanged.
C29_Original ==
    last_save.caller # "none" =>
        /\ CacheEntries(last_save.before) \subseteq CacheEntries(cache_file.entries)
        /\ \A e \in CacheEntries(last_save.before) \ CollectedEntries :
              cache_file.entries[e[1]][e[2]] = last_save.before[e[1]][e[2]]
        /\ last_save.caller = "run_needle_tests" =>
              \A t \in {"summary_answers", "routing_answers"} \cap DOMAIN last_save.before :
                  cache_file.entries[t] = last_save.before[t]

\* ---------------------------------------------------------------------
\* create_all_indexes.main (src/Indexing/create_all_indexes.py)
\* ---------------------------------------------------------------------

\* The steps of main in the order of the code.
MainOrder == <<"ensure_tables_exist", "create_needle_index", "create_summary_index">>

\* return None, None
NoIndexes == <<"None", "None">>

\* return needle_index, summary_index
BothIndexes == <<"needle_index", "summary_index">>

\* The rows create_needle_index stores for the chunks of the pages.
NeedleRows(docs, cfg) ==
    LET nodes == create_needle_chunks(docs, cfg)
    IN [i \in 1..Len(nodes) |-> StoredChunk(nodes[i], <<1, 0>>)]

\* The table after create_summary_index has stored one summary per page.
RECURSIVE StoreSummaries(_, _)
StoreSummaries(table, docs) ==
    IF docs = <<>> THEN table
    ELSE StoreSummaries(
             UpsertSummary(table, SummaryRow(SummaryId(Head(docs).page_id),
                                             Head(docs).type, <<1, 0>>)),
             Tail(docs))

\* Variables main and its three steps leave alone.
main_beside == <<parent_docs, online, search_runs, storing, caching, documents,
                 chunk_config, summary_docs, summaries_stored, index_pc, index_runs>>

MainInit ==
    /\ \E n \in 0..MaxPages :
          \E types \in [1..n -> SummaryTypes] :
             documents = [i \in 1..n |-> PageDocument(i, types[i], ThreeEvents)]
    /\ chunk_config \in {ProgramConfig, ScenarioConfig}
    /\ chunks_table \in {<<>>, EarlierRows(documents, ProgramConfig),
                          EarlierRows(documents, ScenarioConfig)}
    /\ summaries_table \in {<<>>, StoreSummaries(<<>>, documents)}
    /\ parent_docs = <<>>
    /\ NoCallRunning
    /\ child_nodes = <<>>
    /\ summary_docs = <<>>
    /\ summaries_stored = 0
    /\ index_pc = "none"
    /\ index_runs = 0
    /\ NoQueryBefore
    /\ NoSearchRun
    /\ NothingStored
    /\ NothingCached
    /\ MainNotStarted

\* main has reached the call of the step: every step before it was run and
\* main has not returned.
MainReached(step) ==
    /\ main_result = NoValue
    /\ Len(main_steps) < Len(MainOrder)
    /\ MainOrder[Len(main_steps) + 1] = step

\* The step has run with the outcome; main returns (None, None) unless the
\* step succeeded, and both indexes after the last step.
MainStepDone(step, outcome) ==
    /\ main_steps' = Append(main_steps, [step |-> step, outcome |-> outcome])
    /\ main_result' = IF outcome # "ok" THEN NoIndexes
                      ELSE IF step = "create_summary_index" THEN BothIndexes
                      ELSE main_result

\* ensure_tables_exist(force_recreate=True) returns True: the tables were
\* dropped and created again, or the user created them by hand.
EnsureTablesExist ==
    /\ MainReached("ensure_tables_exist")
    /\ \E recreated \in BOOLEAN :
          IF recreated
          THEN chunks_table' = <<>> /\ summaries_table' = <<>>
          ELSE UNCHANGED <<chunks_table, summaries_table>>
    /\ MainStepDone("ensure_tables_exist", "ok")
    /\ UNCHANGED <<main_beside, child_nodes>>

\* ensure_tables_exist returns False
EnsureTablesExistFails ==
    /\ MainReached("ensure_tables_exist")
    /\ MainStepDone("ensure_tables_exist", "failed")
    /\ UNCHANGED <<main_beside, child_nodes, chunks_table, summaries_table>>

\* the import of supabase_setup raises
EnsureTablesExistRaises ==
    /\ MainReached("ensure_tables_exist")
    /\ MainStepDone("ensure_tables_exist", "raised")
    /\ UNCHANGED <<main_beside, child_nodes, chunks_table, summaries_table>>

\* create_needle_index returns (index, docstore)
CreateNeedleIndex ==
    /\ MainReached("create_needle_index")
    /\ child_nodes' = create_needle_chunks(documents, chunk_config)
    /\ chunks_table' = CommitRows(chunks_table, NeedleRows(documents, chunk_config))
    /\ MainStepDone("create_needle_index", "ok")
    /\ UNCHANGED <<main_beside, summaries_table>>

\* create_needle_index returns (None, None) and main goes on to the next step
CreateNeedleIndexReturnsNoneGoingOn ==
    /\ MainReached("create_needle_index")
    /\ main_steps' = Append(main_steps, [step |-> "create_needle_index",
                                         outcome |-> "failed"])
    /\ UNCHANGED <<main_beside, child_nodes, chunks_table, summaries_table, main_result>>

\* create_needle_index returns (None, None): the table is missing or the
\* database cannot be reached
CreateNeedleIndexReturnsNone ==
    /\ MainReached("create_needle_index")
    /\ MainStepDone("create_needle_index", "failed")
    /\ UNCHANGED <<main_beside, child_nodes, chunks_table, summaries_table>>

\* create_needle_index raises after some of the chunks were stored
CreateNeedleIndexRaises ==
    /\ MainReached("create_needle_index")
    /\ \E k \in 0..Len(NeedleRows(documents, chunk_config)) :
          chunks_table' = CommitRows(chunks_table,
                                     SubSeq(NeedleRows(documents, chunk_config), 1, k))
    /\ MainStepDone("create_needle_index", "raised")
    /\ UNCHANGED <<main_beside, child_nodes, summaries_table>>

\* create_summary_index returns the index
CreateSummaryIndex ==
    /\ MainReached("create_summary_index")
    /\ summaries_table' = StoreSummaries(summaries_table, documents)
    /\ MainStepDone("create_summary_index", "ok")
    /\ UNCHANGED <<main_beside, child_nodes, chunks_table>>

\* create_summary_index returns None
CreateSummaryIndexReturnsNone ==
    /\ MainReached("create_summary_index")
    /\ MainStepDone("create_summary_index", "failed")
    /\ UNCHANGED <<main_beside, child_nodes, chunks_table, summaries_table>>

\* create_summary_index raises after some of the summaries were stored
CreateSummaryIndexRaises ==
    /\ MainReached("create_summary_index")
    /\ \E k \in 0..Len(documents) :
          summaries_table' = StoreSummaries(summaries_table, SubSeq(documents, 1, k))
    /\ MainStepDone("create_summary_index", "raised")
    /\ UNCHANGED <<main_beside, child_nodes, chunks_table>>

MainNext ==
    \/ EnsureTablesExist
    \/ EnsureTablesExistFails
    \/ EnsureTablesExistRaises
    \/ CreateNeedleIndex
    \/ CreateNeedleIndexReturnsNone
    \/ CreateNeedleIndexRaises
    \/ CreateSummaryIndex
    \/ CreateSummaryIndexReturnsNone
    \/ CreateSummaryIndexRaises

MainSpec == MainInit /\ [][MainNext]_vars

\* C30: main runs database setup, needle indexing and summary indexing in
\* that order; a step has started only if every step before it succeeded;
\* when a step fails or raises main has returned (None, None), and main
\* returns the two indexes only after all three steps succeeded.
C30_StepsInOrder ==
    /\ Len(main_steps) <= Len(MainOrder)
    /\ \A i \in 1..Len(main_steps) :
          /\ main_steps[i].step = MainOrder[i]
          /\ i < Len(main_steps) => main_steps[i].outcome = "ok"
    /\ main_result \in {NoValue, NoIndexes, BothIndexes}
    /\ (main_steps # <<>> /\ main_steps[Len(main_steps)].outcome # "ok") =>
          main_result = NoIndexes
    /\ main_result = NoIndexes =>
          /\ main_steps # <<>>
          /\ main_steps[Len(main_steps)].outcome # "ok"
    /\ main_result = BothIndexes <=>
          /\ Len(main_steps) = Len(MainOrder)
          /\ main_steps[Len(main_steps)].outcome = "ok"

\* Setup succeeded, create_needle_index raised after storing a chunk, and
\* main returned (None, None) without starting the summary indexing.
C30_Witness ==
    /\ Len(main_steps) = 2
    /\ main_steps[2].outcome = "raised"
    /\ main_result = NoIndexes
    /\ chunks_table # <<>>
    /\ summaries_table = <<>>
====
